---- MODULE Spec2Model ----
(***************************************************************************)
(* Model of the feed-generation core of advantage-aifeeds:                 *)
(*   - OpenRouterClient._post_json (src/src/openrouter_client.py)          *)
(*   - calculate_similarity, extract_keywords, is_date_recent              *)
(*     (src/src/news_utils.py)                                             *)
(*   - cluster_news_by_similarity, is_valid_news_title                     *)
(*     (src/src/news_search.py)                                            *)
(* Each component has its own specification; the variables of the other    *)
(* components stay at their idle values.                                   *)
(***************************************************************************)
EXTENDS Integers, Sequences, FiniteSets, TLC

VARIABLES
    \* ---- OpenRouterClient._post_json ----
    max_retries,   \* self.max_retries
    attempt,       \* loop index of "for attempt in range(self.max_retries + 1)"
    pc,            \* "loop" while the for loop runs, "returned" / "raised" after
    responses,     \* what the backend answered to each urlopen call so far
    sleeps,        \* arguments of the _sleep_backoff calls made so far
    last_err,      \* last_err of _post_json
    result,        \* what the call handed to its caller
    \* ---- calculate_similarity ----
    text1,         \* first argument
    text2,         \* second argument
    similarity,    \* the returned value
    sim_pc,        \* "call" before calculate_similarity returns, "done" after
    \* ---- cluster_news_by_similarity ----
    news_items,    \* the argument: a list of items
    clusters,      \* the returned list of clusters
    cluster_pc,    \* "call" before cluster_news_by_similarity returns, "done" after
    \* ---- is_date_recent ----
    today,         \* date.today()
    date_str,      \* the argument date_str, a sequence of characters
    max_days,      \* the argument max_days
    recent,        \* the returned pair (is_recent, reason)
    date_pc,       \* "call" before is_date_recent returns, "done" after
    \* ---- filter_citations / search_news ----
    citations,          \* the list handed to filter_citations
    blocked_domains,    \* the blocked_domains argument
    response_citations, \* the "citations" entry of the search API's JSON answer
    home_citations,     \* what extract_citations_from_home_pages returned
    filtered,           \* first component of filter_citations' result
    removed,            \* second component: (url, reason) pairs
    cit_pc,             \* "filter_call"/"search_call" before the call returns, "*_done" after
    \* ---- generate_feed and its caller process_cluster ----
    cluster_known,      \* whether clusters.get(cluster_id) finds the cluster
    upto_step,          \* the argument upto_step (NoStep for None)
    max_results,        \* the argument max_results
    must_be_fresh,      \* must_be_fresh of the cluster's categories
    min_len_multi,      \* the argument min_len_multi
    min_len_single,     \* the argument min_len_single
    feed_citations,     \* citations after Step 1
    all_news_raw,       \* all_news_raw of Step 2
    all_news,           \* all_news after Step 2
    feed_clusters,      \* clusters after Step 3
    final_feed,         \* final_feed of Step 4
    validated_sets,     \* per turn of Step 4: its candidates, the links it fetched,
                        \* its validated_articles and the length threshold it used
    discards,           \* the track_discard calls
    trace,              \* the calls made to the collaborators, in order
    cursor,             \* position in the for loop of the current pass
    feed_pc,            \* where generate_feed stands
    feed_ret,           \* what generate_feed returned
    caller,             \* how process_cluster fared with that value
    \* ---- OpenRouterClient._post_sse (with attempt, sleeps, last_err above) ----
    received,           \* the lines that resp.readline() has returned so far
    data_lines,         \* data_lines of _post_sse
    yielded             \* the objects that the generator has yielded so far

postVars == <<max_retries, attempt, pc, responses, sleeps, last_err, result>>

simVars == <<text1, text2, similarity, sim_pc>>

clusterVars == <<news_items, clusters, cluster_pc>>

dateVars == <<today, date_str, max_days, recent, date_pc>>

citVars == <<citations, blocked_domains, response_citations, home_citations,
            filtered, removed, cit_pc>>

feedVars == <<cluster_known, upto_step, max_results, must_be_fresh, min_len_multi,
             min_len_single, feed_citations, all_news_raw, all_news, feed_clusters,
             final_feed, validated_sets, discards, trace, cursor, feed_pc, feed_ret, caller>>

sseVars == <<received, data_lines, yielded>>

vars == <<postVars, simVars, clusterVars, dateVars, citVars, feedVars, sseVars>>

(***************************************************************************)
(* Bounds                                                                  *)
(***************************************************************************)
MaxRetriesBound == 2

\* Longest text, in tokens, handed to calculate_similarity.
MaxTextLen == 2

\* Longest list handed to cluster_news_by_similarity.
MaxItems == 4

(***************************************************************************)
(* OpenRouterClient._post_json                                             *)
(***************************************************************************)
\* status = None of OpenRouterError: the error carries no HTTP status.
NoStatus == 0

\* last_err = None
NoError == [type |-> "None", status |-> NoStatus]

PostIdle ==
    /\ max_retries = 0
    /\ attempt = 0
    /\ pc = "idle"
    /\ responses = <<>>
    /\ sleeps = <<>>
    /\ last_err = NoError
    /\ result = [kind |-> "idle"]

SimIdle == text1 = <<>> /\ text2 = <<>> /\ similarity = [num |-> 0, den |-> 1] /\ sim_pc = "idle"

ClusterIdle == news_items = <<>> /\ clusters = <<>> /\ cluster_pc = "idle"

DateIdle ==
    /\ today = [year |-> 1, month |-> 1, day |-> 1]
    /\ date_str = <<>>
    /\ max_days = 0
    /\ recent = [is_recent |-> FALSE, reason |-> "idle"]
    /\ date_pc = "idle"

CitIdle ==
    /\ citations = <<>> /\ blocked_domains = <<>>
    /\ response_citations = <<>> /\ home_citations = <<>>
    /\ filtered = <<>> /\ removed = <<>> /\ cit_pc = "idle"

SseIdle == received = <<>> /\ data_lines = <<>> /\ yielded = <<>>

\* upto_step = None
NoStep == 0

FeedIdle ==
    /\ cluster_known = FALSE /\ upto_step = NoStep /\ max_results = 0
    /\ must_be_fresh = FALSE /\ min_len_multi = 0 /\ min_len_single = 0
    /\ feed_citations = <<>> /\ all_news_raw = <<>> /\ all_news = <<>>
    /\ feed_clusters = <<>>
    /\ final_feed = <<>> /\ validated_sets = <<>> /\ discards = <<>>
    /\ trace = <<>> /\ cursor = 0 /\ feed_pc = "idle"
    /\ feed_ret = "idle" /\ caller = "idle"

\* "status in (429, 500, 502, 503, 504)"
RetryableStatus == {429, 500, 502, 503, 504}

\* Statuses for which urlopen raises urllib.error.HTTPError.
ErrorStatus == {400, 404} \cup RetryableStatus

\* Raw response bodies, named by what they hold.
\*   "empty"     : no bytes at all
\*   "ok"        : {"choices": [...]}
\*   "err_obj"   : {"error": {"message": "m", "code": 1}}
\*   "err_empty" : {"error": {}}
\*   "err_null"  : {"error": null, "choices": [...]}
\*   "err_str"   : {"error": "boom"}
\*   "list"      : [1, 2]
\*   "garbage"   : bytes that are not JSON (an HTML error page)
RawBody == {"empty", "ok", "err_obj", "err_empty", "err_null", "err_str", "list", "garbage"}

\* The empty dict {}.
EmptyDict == [type |-> "dict", error |-> "absent", raw |-> "empty"]

\* json.loads(raw.decode("utf-8")): the parsed value, or the failure to parse.
json_loads(raw) ==
    CASE raw = "ok"        -> [ok |-> TRUE, val |-> [type |-> "dict", error |-> "absent", raw |-> raw]]
      [] raw = "err_obj"   -> [ok |-> TRUE, val |-> [type |-> "dict", error |-> "dict", raw |-> raw]]
      [] raw = "err_empty" -> [ok |-> TRUE, val |-> [type |-> "dict", error |-> "emptydict", raw |-> raw]]
      [] raw = "err_null"  -> [ok |-> TRUE, val |-> [type |-> "dict", error |-> "null", raw |-> raw]]
      [] raw = "err_str"   -> [ok |-> TRUE, val |-> [type |-> "dict", error |-> "str", raw |-> raw]]
      [] raw = "list"      -> [ok |-> TRUE, val |-> [type |-> "list", error |-> "absent", raw |-> raw]]
      [] OTHER             -> [ok |-> FALSE, val |-> EmptyDict]

\* Python truth value of a parsed JSON value.
Truthy(val) == val # EmptyDict

\* data.get("error") is truthy: a non-empty object or a non-empty string.
HasError(data) == data.type = "dict" /\ data.error \in {"dict", "str"}

\* OpenRouterError(msg, status=..., payload=...): "self.payload = payload or {}".
OpenRouterError(status, payload) ==
    [type |-> "OpenRouterError", status |-> status,
     payload |-> IF Truthy(payload) THEN payload ELSE EmptyDict]

\* An exception that is not an OpenRouterError.
OtherError(type) == [type |-> type, status |-> NoStatus, payload |-> EmptyDict]

\* _try_read_json(e): the parsed body of an HTTPError, {} when it is empty
\* or does not parse.
try_read_json(raw) ==
    IF raw = "empty" THEN EmptyDict
    ELSE IF json_loads(raw).ok THEN json_loads(raw).val ELSE EmptyDict

\* What the backend can answer to one urlopen call.
HttpOk    == [kind : {"http"}, status : {200}, body : RawBody]
HttpError == [kind : {"http"}, status : ErrorStatus, body : {"empty", "err_obj", "garbage"}]
UrlError  == [kind : {"urlerror"}, status : {NoStatus}, body : {"empty"}]
Response  == HttpOk \cup HttpError \cup UrlError

NoResult == [kind |-> "pending"]

\* The client is built with max_retries >= 0 (the default is 2); with a
\* negative value range(max_retries + 1) is empty and no attempt is made.
PostInit ==
    /\ max_retries \in 0..MaxRetriesBound
    /\ attempt = 0
    /\ pc = "loop"
    /\ responses = <<>>
    /\ sleeps = <<>>
    /\ last_err = NoError
    /\ result = NoResult
    /\ SimIdle /\ ClusterIdle /\ DateIdle /\ CitIdle /\ FeedIdle /\ SseIdle

Return(data) ==
    /\ pc' = "returned"
    /\ result' = [kind |-> "return", data |-> data, at |-> attempt]
    /\ UNCHANGED <<attempt, sleeps>>

Raise(err) ==
    /\ pc' = "raised"
    /\ result' = [kind |-> "raise", err |-> err, at |-> attempt]
    /\ UNCHANGED <<attempt, sleeps>>

\* self._sleep_backoff(attempt); continue.  When the range is used up the
\* loop ends and line 134 raises "last_err or OpenRouterError('Unknown error')".
SleepAndContinue ==
    /\ sleeps' = Append(sleeps, attempt)
    /\ attempt' = attempt + 1
    /\ IF attempt + 1 > max_retries
       THEN /\ pc' = "raised"
            /\ result' = [kind |-> "raise",
                          err |-> IF last_err'.type # "None" THEN last_err'
                                  ELSE OpenRouterError(NoStatus, EmptyDict),
                          at |-> attempt]
       ELSE UNCHANGED <<pc, result>>

\* "attempt < self.max_retries and status in (429, 500, 502, 503, 504)"
RetryHttp_IgnoresStatus(att, status) == att < max_retries

RetryHttp_RetriesOnLast(att, status) == att <= max_retries /\ status \in RetryableStatus

RetryHttp_GivesUpEarly(att, status) == att < max_retries - 1 /\ status \in RetryableStatus

RetryHttp(att, status) == att < max_retries /\ status \in RetryableStatus

\* A URLError handler that retries whatever the attempt.
RetryUrl_Always(att) == TRUE

\* "attempt < self.max_retries" of the URLError handler
RetryUrl(att) == att < max_retries

\* urlopen answered 2xx: lines 108-117.
PostOk ==
    /\ pc = "loop" /\ attempt <= max_retries
    /\ UNCHANGED <<simVars, clusterVars, dateVars, citVars, feedVars, sseVars>>
    /\ \E r \in HttpOk :
        /\ responses' = Append(responses, r)
        /\ UNCHANGED <<max_retries, last_err>>
        /\ IF r.body = "empty"
           THEN Return(EmptyDict)
           ELSE IF ~json_loads(r.body).ok
           THEN Raise(OtherError("JSONDecodeError"))
           ELSE LET data == json_loads(r.body).val IN
                IF HasError(data)
                THEN IF data.error = "dict"
                     THEN Raise(OpenRouterError(r.status, data))
                     ELSE Raise(OtherError("AttributeError"))
                ELSE Return(data)

\* urlopen raised HTTPError: lines 118-126.
PostHttpError ==
    /\ pc = "loop" /\ attempt <= max_retries
    /\ UNCHANGED <<simVars, clusterVars, dateVars, citVars, feedVars, sseVars>>
    /\ \E r \in HttpError :
        /\ responses' = Append(responses, r)
        /\ last_err' = OpenRouterError(r.status, try_read_json(r.body))
        /\ UNCHANGED max_retries
        /\ IF RetryHttp(attempt, r.status)
           THEN SleepAndContinue
           ELSE Raise(last_err')

\* urlopen raised URLError: lines 127-132.
PostUrlError ==
    /\ pc = "loop" /\ attempt <= max_retries
    /\ UNCHANGED <<simVars, clusterVars, dateVars, citVars, feedVars, sseVars>>
    /\ \E r \in UrlError :
        /\ responses' = Append(responses, r)
        /\ last_err' = OpenRouterError(NoStatus, EmptyDict)
        /\ UNCHANGED max_retries
        /\ IF RetryUrl(attempt)
           THEN SleepAndContinue
           ELSE Raise(last_err')

\* ---------------------------------------------------------------------
\* Properties of _post_json
\* ---------------------------------------------------------------------
Attempts == Len(responses)

IsRetryableAnswer(r) == r.kind = "http" /\ r.status \in RetryableStatus

\* A 200 answer whose body is JSON without an error member.
IsCleanOk(r) == r.kind = "http" /\ r.status = 200 /\ r.body \in {"ok", "list"}

AllRetryable(n) == \A i \in 1..n : IsRetryableAnswer(responses[i])

\* C1: when the backend answers the first k attempts (k <= max_retries) with
\* a status of {429, 500, 502, 503, 504}, the call is still running after them
\* and makes attempt k+1; when that attempt is answered with 200 and an
\* error-free JSON body, the call returns that body from attempt k+1 and no
\* further attempt is made.
C1_RetryThenSuccess ==
    \A k \in 0..max_retries :
        /\ (Attempts = k /\ AllRetryable(k)) => (pc = "loop" /\ attempt = k)
        /\ (Attempts > k /\ AllRetryable(k) /\ IsCleanOk(responses[k + 1])) =>
              /\ Attempts = k + 1
              /\ pc = "returned"
              /\ result.kind = "return"
              /\ result.at = k
              /\ result.data = json_loads(responses[k + 1].body).val
              /\ result.data.raw = responses[k + 1].body

\* 503, 503, 200 has succeeded on the third attempt.
C1_Witness ==
    /\ max_retries = 2
    /\ Attempts = 3
    /\ responses[1].status = 503 /\ responses[2].status = 503
    /\ IsCleanOk(responses[3])
    /\ pc = "returned"

\* C2: no call makes more than max_retries+1 attempts; when every attempt is
\* answered with a retryable status the call makes exactly max_retries+1
\* attempts (max_retries backoff sleeps) and then raises OpenRouterError with
\* the HTTP status of the last attempt.
C2_ExhaustionRaises ==
    /\ Attempts <= max_retries + 1
    /\ AllRetryable(Attempts) =>
          /\ (Attempts <= max_retries) => pc = "loop"
          /\ (Attempts = max_retries + 1) =>
                /\ pc = "raised"
                /\ result.kind = "raise"
                /\ result.err.type = "OpenRouterError"
                /\ result.err.status = responses[Attempts].status
                /\ Len(sleeps) = max_retries

\* 503 on every one of the max_retries+1 attempts, ending with 504.
C2_Witness ==
    /\ max_retries = 2
    /\ Attempts = 3
    /\ AllRetryable(3)
    /\ responses[3].status = 504
    /\ pc = "raised"

\* The structured payload an HTTP error response carries: its parsed JSON
\* body, the empty dict when it has none.
StructuredPayload(r) ==
    IF r.body = "err_obj"
    THEN [type |-> "dict", error |-> "dict", raw |-> "err_obj"]
    ELSE EmptyDict

\* C3: an HTTP error status outside {429, 500, 502, 503, 504} ends the call
\* on the attempt it occurs on: OpenRouterError with that status and the
\* structured payload of that response is raised, no later attempt is made
\* and no backoff sleep follows it.
C3_NonRetryableFailsAtOnce ==
    \A i \in 1..Attempts :
        (responses[i].kind = "http" /\ responses[i].status \in ErrorStatus \ RetryableStatus) =>
            /\ i = Attempts
            /\ pc = "raised"
            /\ result.kind = "raise"
            /\ result.at = i - 1
            /\ result.err.type = "OpenRouterError"
            /\ result.err.status = responses[i].status
            /\ result.err.payload = StructuredPayload(responses[i])
            /\ Len(sleeps) = i - 1

\* A 404 with a structured body on the second attempt, two retries left.
C3_Witness ==
    /\ max_retries = 2
    /\ Attempts = 2
    /\ IsRetryableAnswer(responses[1])
    /\ responses[2].status = 404 /\ responses[2].body = "err_obj"
    /\ pc = "raised"

\* C4: a 200 response whose JSON body contains an error object is never
\* returned as a success; the call raises OpenRouterError with that body as
\* payload.
C4_ErrorBodyIsFailure ==
    \A i \in 1..Attempts :
        (responses[i].kind = "http" /\ responses[i].status = 200
            /\ responses[i].body \in {"err_obj", "err_empty"}) =>
            /\ pc = "raised"
            /\ result.kind = "raise"
            /\ result.err.type = "OpenRouterError"
            /\ result.err.payload = json_loads(responses[i].body).val

\* C5: a transport failure (URLError) is retried while retries are left and
\* surfaces as OpenRouterError on exhaustion; every failing exit of the call
\* is an OpenRouterError.
C5_OnlyTypedErrors ==
    /\ \A i \in 1..Attempts :
          responses[i].kind = "urlerror" =>
              IF i <= max_retries
              THEN Len(sleeps) >= i /\ sleeps[i] = i - 1
              ELSE pc = "raised" /\ result.err.type = "OpenRouterError"
    /\ pc = "raised" => result.err.type = "OpenRouterError"

Init == PostInit

Next == PostOk \/ PostHttpError \/ PostUrlError

Spec == Init /\ [][Next]_vars

(***************************************************************************)
(* Texts.  A text is the sequence of its whitespace-separated tokens; a    *)
(* token is the piece of text itself.                                      *)
(***************************************************************************)
Token == {"roma", "Roma", "ROMA", "lazio", "LAZIO", "derby", "milan", "inter",
          "juve", "napoli", "ROMA-LAZIO", "il", "della", "VIDEO:", "login",
          "torino", "genoa", "parma", "bari", "lecce", "pisa", "empoli"}

\* normalize_text(tok).split(): lower case, every character outside [\w\s]
\* replaced by a blank, blanks collapsed and stripped.
normalize_text(tok) ==
    CASE tok \in {"Roma", "ROMA"} -> <<"roma">>
      [] tok = "LAZIO"            -> <<"lazio">>
      [] tok = "ROMA-LAZIO"       -> <<"roma", "lazio">>
      [] tok = "VIDEO:"           -> <<"video">>
      [] OTHER                    -> <<tok>>

\* str.isupper(): at least one cased character and no lower-case one.
isupper(tok) == tok \in {"ROMA", "LAZIO", "ROMA-LAZIO", "VIDEO:"}

\* The tokens that match r'^(video|foto|gallery|ultim\'ora|live|diretta|esclusiva):\s*'
\* (case-insensitive) when they open the text.
IsNewsPrefix(tok) == tok = "VIDEO:"

\* The members of stop_words that occur in Token.
stop_words == {"della"}

\* The words of a text: normalize_text(text).split().
RECURSIVE words_of(_)
words_of(text) ==
    IF text = <<>> THEN <<>>
    ELSE normalize_text(Head(text)) \o words_of(Tail(text))

Range(seq) == {seq[i] : i \in DOMAIN seq}

\* min_length of extract_keywords
min_length == 4

\* extract_keywords(text)
extract_keywords(text) ==
    IF text = <<>> THEN {}
    ELSE LET stripped == IF IsNewsPrefix(Head(text)) THEN Tail(text) ELSE text
         IN {w \in Range(words_of(stripped)) : Len(w) >= min_length /\ w \notin stop_words}

\* {w for w in keywords if any(c.isupper() for c in text.split() if normalize_text(c) == w)}
entities_of(text, keywords) ==
    {w \in keywords : \E i \in DOMAIN text : normalize_text(text[i]) = <<w>> /\ isupper(text[i])}

Min(a, b) == IF a <= b THEN a ELSE b

\* A similarity value is the fraction num/den (den > 0); 0.0 is 0/1.  The
\* code divides and adds floats; comparing num/den with a threshold agrees
\* with the float comparison for the keyword counts that occur here.
Zero == [num |-> 0, den |-> 1]

\* calculate_similarity(text1, text2), use_weighted = True
calculate_similarity_OwnEntities(t1, t2) ==
    LET keywords1 == extract_keywords(t1)
        keywords2 == extract_keywords(t2)
        intersection == keywords1 \cap keywords2
        union == keywords1 \cup keywords2
        shared == entities_of(t1, keywords1) \cap keywords2
    IN  IF keywords1 = {} \/ keywords2 = {} THEN Zero
        ELSE [num |-> Min(Cardinality(union), Cardinality(intersection) + Cardinality(shared)),
              den |-> Cardinality(union)]

calculate_similarity(t1, t2) ==
    LET keywords1 == extract_keywords(t1)
        keywords2 == extract_keywords(t2)
        intersection == keywords1 \cap keywords2
        union == keywords1 \cup keywords2
        entities1 == entities_of(t1, keywords1)
        entities2 == entities_of(t2, keywords2)
        shared_entities == entities1 \cap entities2
    IN  IF keywords1 = {} \/ keywords2 = {} THEN Zero
        ELSE IF union = {} THEN Zero
        ELSE IF shared_entities # {}
        THEN \* min(1.0, base_jaccard + boost)
             [num |-> Min(Cardinality(union),
                          Cardinality(intersection) + Cardinality(shared_entities)),
              den |-> Cardinality(union)]
        ELSE [num |-> Cardinality(intersection), den |-> Cardinality(union)]

\* The tokens the texts of the similarity specification are built from.
SimToken == {"roma", "Roma", "ROMA", "LAZIO", "ROMA-LAZIO", "il", "della", "VIDEO:"}

RECURSIVE TextsUpTo(_)
TextsUpTo(n) ==
    IF n = 0 THEN {<<>>}
    ELSE LET shorter == TextsUpTo(n - 1)
         IN shorter \cup {Append(t, tok) : t \in shorter, tok \in SimToken}

SimInit ==
    /\ text1 \in TextsUpTo(MaxTextLen)
    /\ text2 \in TextsUpTo(MaxTextLen)
    /\ similarity = Zero
    /\ sim_pc = "call"
    /\ PostIdle /\ ClusterIdle /\ DateIdle /\ CitIdle /\ FeedIdle /\ SseIdle

CalcSimilarity ==
    /\ sim_pc = "call"
    /\ sim_pc' = "done"
    /\ similarity' = calculate_similarity(text1, text2)
    /\ UNCHANGED <<text1, text2, postVars, clusterVars, dateVars, citVars, feedVars, sseVars>>

SimNext == CalcSimilarity

SpecSimilarity == SimInit /\ [][SimNext]_vars

\* C8: calculate_similarity is symmetric: the value returned for
\* (text1, text2) is the value of calculate_similarity(text2, text1).
C8_Symmetric ==
    sim_pc = "done" => similarity = calculate_similarity(text2, text1)

\* Two different texts that share an upper-case token, so that the entity
\* bonus is applied, and differ in their other keywords.
C8_Witness ==
    /\ sim_pc = "done"
    /\ text1 # text2
    /\ extract_keywords(text1) # extract_keywords(text2)
    /\ entities_of(text1, extract_keywords(text1))
          \cap entities_of(text2, extract_keywords(text2)) # {}
    /\ similarity.num > 0

\* A token is capitalized when its first letter is an upper-case letter.
IsCapitalized(tok) == tok \in {"Roma", "ROMA", "LAZIO", "ROMA-LAZIO", "VIDEO:"}

\* The keywords of a text that stand in it as a capitalized token.
CapitalizedKeywords(text) ==
    {w \in extract_keywords(text) :
        \E tok \in Range(text) : IsCapitalized(tok) /\ normalize_text(tok) = <<w>>}

\* C9: the value is in [0, 1]; it is 0 when either keyword set is empty,
\* otherwise |intersection| / |union| plus the bonus
\* |shared capitalized tokens| / |union|, capped at 1.
C9_RangeAndBonus ==
    sim_pc = "done" =>
        LET k1 == extract_keywords(text1)
            k2 == extract_keywords(text2)
            i == Cardinality(k1 \cap k2)
            u == Cardinality(k1 \cup k2)
            e == Cardinality(CapitalizedKeywords(text1) \cap CapitalizedKeywords(text2))
        IN  /\ similarity.den > 0
            /\ 0 <= similarity.num /\ similarity.num <= similarity.den
            /\ (k1 = {} \/ k2 = {}) => similarity.num = 0
            /\ (k1 # {} /\ k2 # {}) =>
                  similarity.num * u = Min(i + e, u) * similarity.den

(***************************************************************************)
(* cluster_news_by_similarity                                              *)
(***************************************************************************)
\* The tokens that hold one of the skip_patterns of is_valid_news_title
\* as a substring of their lower-case form.
HasSkipPattern(tok) == tok = "login"

\* is_valid_news_title(title)
is_valid_news_title(title) ==
    IF title = <<>> THEN FALSE
    ELSE IF \E i \in DOMAIN title : HasSkipPattern(title[i]) THEN FALSE
    ELSE LET words == SelectSeq(title, LAMBDA w : Len(w) > 2)
         IN  ~(Len(words) < 3)

\* similarity_threshold = 0.25, as a percentage
SimilarityThresholdPct == 25

\* "similarity >= similarity_threshold"
AtLeast(sim, pct) == sim.num * 100 >= pct * sim.den

\* item['title'] + " " + item.get('snippet', '')
ItemText(item) == item.title \o item.snippet

\* valid_items: the positions of news_items whose title passes
\* is_valid_news_title, in input order.
RECURSIVE ValidFrom(_, _)
ValidFrom(items, i) ==
    IF i > Len(items) THEN <<>>
    ELSE IF is_valid_news_title(items[i].title)
         THEN <<i>> \o ValidFrom(items, i + 1)
         ELSE ValidFrom(items, i + 1)

valid_items_of(items) == ValidFrom(items, 1)

\* The inner loop "for j, other in enumerate(valid_items)" from index j on:
\* the pair of the grown cluster and the grown used set.
RECURSIVE Absorb_KeepsUsed(_, _, _, _, _, _)
Absorb_KeepsUsed(items, valid, i, j, cluster, used) ==
    IF j > Len(valid) THEN [cluster |-> cluster, used |-> used]
    ELSE IF j \in used
         THEN Absorb_KeepsUsed(items, valid, i, j + 1, cluster, used)
         ELSE IF AtLeast(calculate_similarity(ItemText(items[valid[i]]),
                                              ItemText(items[valid[j]])),
                         SimilarityThresholdPct)
              THEN Absorb_KeepsUsed(items, valid, i, j + 1, Append(cluster, valid[j]), used)
              ELSE Absorb_KeepsUsed(items, valid, i, j + 1, cluster, used)

\* An inner loop that compares with the member that joined last, not with
\* the seed.
RECURSIVE Absorb_Chained(_, _, _, _, _, _)
Absorb_Chained(items, valid, i, j, cluster, used) ==
    IF j > Len(valid) THEN [cluster |-> cluster, used |-> used]
    ELSE IF j \in used
         THEN Absorb_Chained(items, valid, i, j + 1, cluster, used)
         ELSE IF AtLeast(calculate_similarity(ItemText(items[cluster[Len(cluster)]]),
                                              ItemText(items[valid[j]])),
                         SimilarityThresholdPct)
              THEN Absorb_Chained(items, valid, i, j + 1, Append(cluster, valid[j]),
                                  used \cup {j})
              ELSE Absorb_Chained(items, valid, i, j + 1, cluster, used)

RECURSIVE Absorb(_, _, _, _, _, _)
Absorb(items, valid, i, j, cluster, used) ==
    IF j > Len(valid) THEN [cluster |-> cluster, used |-> used]
    ELSE IF j \in used
         THEN Absorb(items, valid, i, j + 1, cluster, used)
         ELSE IF AtLeast(calculate_similarity(ItemText(items[valid[i]]),
                                              ItemText(items[valid[j]])),
                         SimilarityThresholdPct)
              THEN Absorb(items, valid, i, j + 1, Append(cluster, valid[j]), used \cup {j})
              ELSE Absorb(items, valid, i, j + 1, cluster, used)

\* The outer loop "for i, item in enumerate(valid_items)" from index i on.
RECURSIVE Greedy(_, _, _, _, _)
Greedy(items, valid, i, used, acc) ==
    IF i > Len(valid) THEN acc
    ELSE IF i \in used
         THEN Greedy(items, valid, i + 1, used, acc)
         ELSE LET grown == Absorb(items, valid, i, 1, <<valid[i]>>, used \cup {i})
              IN  Greedy(items, valid, i + 1, grown.used, Append(acc, grown.cluster))

\* list.sort(key=len, reverse=True): stable, longest first.
RECURSIVE InsertBySize(_, _)
InsertBySize(sorted, c) ==
    IF sorted = <<>> THEN <<c>>
    ELSE IF Len(Head(sorted)) >= Len(c)
         THEN <<Head(sorted)>> \o InsertBySize(Tail(sorted), c)
         ELSE <<c>> \o sorted

RECURSIVE SortFrom(_, _, _)
SortFrom(cs, k, sorted) ==
    IF k > Len(cs) THEN sorted
    ELSE SortFrom(cs, k + 1, InsertBySize(sorted, cs[k]))

sort_by_len_Unsorted(cs) == cs

sort_by_len(cs) == SortFrom(cs, 1, <<>>)

\* cluster_news_by_similarity(news_items): clusters of positions of news_items
cluster_news_by_similarity(items) ==
    IF items = <<>> THEN <<>>
    ELSE LET valid == valid_items_of(items)
         IN  IF valid = <<>> THEN <<>>
             ELSE sort_by_len(Greedy(items, valid, 1, {}, <<>>))

\* The items the lists of the clustering specification are drawn from.
ItemPool ==
    { [title |-> <<"roma", "lazio", "derby">>,           snippet |-> <<>>],
      [title |-> <<"roma", "lazio", "milan", "inter">>,  snippet |-> <<>>],
      [title |-> <<"milan", "inter", "juve", "napoli">>, snippet |-> <<>>],
      [title |-> <<"inter", "juve", "napoli">>,          snippet |-> <<"ROMA", "LAZIO">>],
      [title |-> <<"login", "roma", "lazio", "derby">>,  snippet |-> <<>>],
      [title |-> <<"roma", "il", "derby">>,              snippet |-> <<"lazio", "milan">>],
      [title |-> <<>>,                                   snippet |-> <<"roma", "lazio">>] }

RECURSIVE ListsUpTo(_)
ListsUpTo(n) ==
    IF n = 0 THEN {<<>>}
    ELSE LET shorter == ListsUpTo(n - 1)
         IN shorter \cup {Append(l, it) : l \in shorter, it \in ItemPool}

ClusterInit ==
    /\ news_items \in ListsUpTo(MaxItems)
    /\ clusters = <<>>
    /\ cluster_pc = "call"
    /\ PostIdle /\ SimIdle /\ DateIdle /\ CitIdle /\ FeedIdle /\ SseIdle

ClusterNews ==
    /\ cluster_pc = "call"
    /\ cluster_pc' = "done"
    /\ clusters' = cluster_news_by_similarity(news_items)
    /\ UNCHANGED <<news_items, postVars, simVars, dateVars, citVars, feedVars, sseVars>>

ClusterNext == ClusterNews

SpecCluster == ClusterInit /\ [][ClusterNext]_vars

\* How often position p of news_items occurs in the returned clusters.
Occurrences(p) ==
    Cardinality({<<c, k>> \in (DOMAIN clusters) \X (1..Len(news_items)) :
                    k \in DOMAIN clusters[c] /\ clusters[c][k] = p})

\* The title check read off the title: it is non-empty, holds no denylisted
\* phrase and has three words of more than two characters.
PassesTitleCheck(item) ==
    /\ item.title # <<>>
    /\ \A tok \in Range(item.title) : tok # "login"
    /\ Cardinality({i \in DOMAIN item.title : Len(item.title[i]) >= 3}) >= 3

\* C6: every item whose title passes is_valid_news_title occurs exactly once
\* in exactly one returned cluster, no item whose title fails occurs in
\* any, and no returned cluster is empty.
C6_Partition ==
    cluster_pc = "done" =>
        /\ \A p \in DOMAIN news_items :
              Occurrences(p) = IF PassesTitleCheck(news_items[p]) THEN 1 ELSE 0
        /\ \A c \in DOMAIN clusters :
              /\ clusters[c] # <<>>
              /\ Range(clusters[c]) \subseteq DOMAIN news_items
              /\ Len(clusters[c]) <= Len(news_items)

\* A list with valid and invalid titles that came out as more than one
\* cluster, one of them with several members.
C6_Witness ==
    /\ cluster_pc = "done"
    /\ Len(clusters) >= 2
    /\ \E c \in DOMAIN clusters : Len(clusters[c]) >= 2
    /\ \E p \in DOMAIN news_items : ~PassesTitleCheck(news_items[p])
    /\ \E p \in DOMAIN news_items : PassesTitleCheck(news_items[p])

\* C7: the returned clusters are in order of non-increasing size.
C7_SortedBySize ==
    cluster_pc = "done" =>
        \A c \in 1..(Len(clusters) - 1) : Len(clusters[c]) >= Len(clusters[c + 1])

\* The seed of the largest cluster is not the first valid item, so the
\* sort moved a cluster forward.
C7_Witness ==
    /\ cluster_pc = "done"
    /\ Len(clusters) >= 2
    /\ Len(clusters[1]) > Len(clusters[2])
    /\ clusters[1][1] > clusters[2][1]

(***************************************************************************)
(* is_date_recent.  A date string is the sequence of its characters; the   *)
(* words "oggi", "ieri", "ore", "fa" and "marzo" are single elements.      *)
(***************************************************************************)
Digits == <<"0", "1", "2", "3", "4", "5", "6", "7", "8", "9">>

IsDigit(ch) == \E n \in 1..10 : Digits[n] = ch

DigitVal(ch) == (CHOOSE n \in 1..10 : Digits[n] = ch) - 1

\* int(chars) of a non-empty run of digits
RECURSIVE NumVal(_)
NumVal(chars) ==
    IF chars = <<>> THEN 0
    ELSE NumVal(SubSeq(chars, 1, Len(chars) - 1)) * 10 + DigitVal(chars[Len(chars)])

\* str(n) for n >= 0
RECURSIVE str(_)
str(n) == IF n < 10 THEN <<Digits[n + 1]>> ELSE str(n \div 10) \o <<Digits[(n % 10) + 1]>>

\* n written with at least w digits, zero padded
RECURSIVE Padded(_, _)
Padded(n, w) == IF Len(str(n)) >= w THEN str(n) ELSE <<"0">> \o Padded(n, w - 1)

\* Calendar of datetime.date
IsLeap(y) == (y % 4 = 0) /\ ((y % 100 # 0) \/ (y % 400 = 0))

DaysInMonth(y, m) ==
    IF m = 2 THEN (IF IsLeap(y) THEN 29 ELSE 28)
    ELSE IF m \in {4, 6, 9, 11} THEN 30 ELSE 31

IsValidDate(y, m, d) ==
    /\ y \in 1..9999
    /\ m \in 1..12
    /\ d >= 1 /\ d <= DaysInMonth(y, m)

RECURSIVE DaysBeforeMonth(_, _)
DaysBeforeMonth(y, m) ==
    IF m = 1 THEN 0 ELSE DaysBeforeMonth(y, m - 1) + DaysInMonth(y, m - 1)

\* date.toordinal()
toordinal(dt) ==
    LET y1 == dt.year - 1
    IN  y1 * 365 + (y1 \div 4) - (y1 \div 100) + (y1 \div 400)
          + DaysBeforeMonth(dt.year, dt.month) + dt.day

\* date.isoformat(): YYYY-MM-DD
isoformat(dt) ==
    Padded(dt.year, 4) \o <<"-">> \o Padded(dt.month, 2) \o <<"-">> \o Padded(dt.day, 2)

\* s[:10]: the first ten characters; a word cut by the slice leaves "?".
RECURSIVE Slice(_, _)
Slice(chars, n) ==
    IF n <= 0 \/ chars = <<>> THEN <<>>
    ELSE IF Len(Head(chars)) > n THEN <<"?">>
    ELSE <<Head(chars)>> \o Slice(Tail(chars), n - Len(Head(chars)))

\* "sub in chars" for a run of digits sub
Contains(chars, sub) ==
    \E i \in 1..(Len(chars) - Len(sub) + 1) : SubSeq(chars, i, i + Len(sub) - 1) = sub

\* The words of the alphabet whose lower-case form holds one of today_keywords.
HasTodayKeyword(chars) == \E i \in DOMAIN chars : chars[i] = "oggi"

\* The words of the alphabet that one of the unit alternatives of
\* time_patterns matches at their start ("ore?" matches "ore").
StartsTimeUnit(ch) == ch = "ore"

\* re.search of a time pattern: digits, optional blanks, a unit word.
RECURSIVE SkipBlanks(_, _)
SkipBlanks(chars, i) ==
    IF i <= Len(chars) /\ chars[i] = " " THEN SkipBlanks(chars, i + 1) ELSE i

MatchesTimePattern(chars) ==
    \E i \in DOMAIN chars :
        /\ IsDigit(chars[i])
        /\ LET j == SkipBlanks(chars, i + 1)
           IN  j <= Len(chars) /\ StartsTimeUnit(chars[j])

\* The positions of the separator sep in chars.
SepPositions(chars, sep) == {i \in DOMAIN chars : chars[i] = sep}

AllDigits(chars) == chars # <<>> /\ \A i \in DOMAIN chars : IsDigit(chars[i])

\* The three fields of chars around exactly two separators sep, or <<>>.
Fields(chars, sep) ==
    LET ps == SepPositions(chars, sep)
    IN  IF Cardinality(ps) # 2 THEN <<>>
        ELSE LET p1 == CHOOSE x \in ps : \A z \in ps : x <= z
                 p2 == CHOOSE x \in ps : \A z \in ps : x >= z
                 f1 == SubSeq(chars, 1, p1 - 1)
                 f2 == SubSeq(chars, p1 + 1, p2 - 1)
                 f3 == SubSeq(chars, p2 + 1, Len(chars))
             IN  IF AllDigits(f1) /\ AllDigits(f2) /\ AllDigits(f3)
                 THEN <<f1, f2, f3>> ELSE <<>>

NoDate == [ok |-> FALSE, year |-> 0, month |-> 0, day |-> 0]

\* datetime.strptime(chars, fmt).date() for the formats of date_formats;
\* order names the fields ("ymd", "dmy", "mdy"), sep the separator.
\* %Y takes four digits, %m and %d one or two.
strptime(chars, order, sep) ==
    LET fs == Fields(chars, sep)
    IN  IF fs = <<>> THEN NoDate
        ELSE LET yf == IF order = "ymd" THEN fs[1] ELSE fs[3]
                 mf == IF order = "ymd" THEN fs[2] ELSE IF order = "dmy" THEN fs[2] ELSE fs[1]
                 df == IF order = "ymd" THEN fs[3] ELSE IF order = "dmy" THEN fs[1] ELSE fs[2]
             IN  IF /\ Len(yf) = 4 /\ Len(mf) <= 2 /\ Len(df) <= 2
                    /\ IsValidDate(NumVal(yf), NumVal(mf), NumVal(df))
                 THEN [ok |-> TRUE, year |-> NumVal(yf), month |-> NumVal(mf), day |-> NumVal(df)]
                 ELSE NoDate

\* date_formats, in the order they are tried
date_formats ==
    << <<"ymd", "-">>, <<"dmy", "/">>, <<"mdy", "/">>, <<"dmy", "-">>, <<"ymd", "/">> >>

\* The loop "for fmt in date_formats" from format k on: the first that parses.
RECURSIVE ParseFrom(_, _)
ParseFrom(chars, k) ==
    IF k > Len(date_formats) THEN NoDate
    ELSE LET r == strptime(chars, date_formats[k][1], date_formats[k][2])
         IN  IF r.ok THEN r ELSE ParseFrom(chars, k + 1)

\* "days_diff <= max_days"
WithinDays_Strict(days_diff, md) == days_diff < md

WithinDays(days_diff, md) == days_diff <= md

\* is_date_recent(date_str, max_days) on the day tdy.  The code reads
\* date.today() at lines 54, 101 and 113; the call is taken not to span
\* midnight, so the three reads agree.
is_date_recent(ds, md, tdy) ==
    IF ds = <<>> THEN [is_recent |-> FALSE, reason |-> "no date"]
    ELSE IF Slice(ds, 10) = isoformat(tdy)
    THEN [is_recent |-> TRUE, reason |-> "exact match"]
    ELSE IF HasTodayKeyword(ds)
    THEN [is_recent |-> TRUE, reason |-> "keyword match"]
    ELSE IF MatchesTimePattern(ds)
    THEN [is_recent |-> TRUE, reason |-> "recent time"]
    ELSE LET parsed_date == ParseFrom(Slice(ds, 10), 1)
         IN  IF parsed_date.ok
             THEN LET days_diff == toordinal(tdy) - toordinal(parsed_date)
                  IN  IF WithinDays(days_diff, md)
                      THEN [is_recent |-> TRUE, reason |-> "within"]
                      ELSE [is_recent |-> FALSE, reason |-> "too old"]
             ELSE IF Contains(ds, str(tdy.day)) /\ Contains(ds, str(tdy.year))
             THEN [is_recent |-> TRUE, reason |-> "date components match"]
             ELSE [is_recent |-> FALSE, reason |-> "not recent"]

\* Largest number of days a date string lies before today, and after it.
MaxDaysAgo == 12

MaxDaysAhead == 2

\* The days on which the function is called.
Todays ==
    { [year |-> 2024, month |-> 3, day |-> 1],
      [year |-> 2024, month |-> 1, day |-> 5],
      [year |-> 2023, month |-> 3, day |-> 4],
      [year |-> 2024, month |-> 12, day |-> 31] }

\* The day before dt and the day after it, by the calendar.
PrevDay(dt) ==
    IF dt.day > 1 THEN [dt EXCEPT !.day = dt.day - 1]
    ELSE IF dt.month > 1
         THEN [year |-> dt.year, month |-> dt.month - 1,
               day |-> DaysInMonth(dt.year, dt.month - 1)]
         ELSE [year |-> dt.year - 1, month |-> 12, day |-> 31]

NextDay(dt) ==
    IF dt.day < DaysInMonth(dt.year, dt.month) THEN [dt EXCEPT !.day = dt.day + 1]
    ELSE IF dt.month < 12
         THEN [year |-> dt.year, month |-> dt.month + 1, day |-> 1]
         ELSE [year |-> dt.year + 1, month |-> 1, day |-> 1]

\* The date n days before dt (after it for n < 0).
RECURSIVE DaysBefore(_, _)
DaysBefore(dt, n) ==
    IF n = 0 THEN dt
    ELSE IF n > 0 THEN DaysBefore(PrevDay(dt), n - 1)
    ELSE DaysBefore(NextDay(dt), n + 1)

\* A date written in one of the five layouts.
Written(dt, order, sep) ==
    LET y == Padded(dt.year, 4)
        m == Padded(dt.month, 2)
        d == Padded(dt.day, 2)
    IN  IF order = "ymd" THEN y \o <<sep>> \o m \o <<sep>> \o d
        ELSE IF order = "dmy" THEN d \o <<sep>> \o m \o <<sep>> \o y
        ELSE m \o <<sep>> \o d \o <<sep>> \o y

\* What may follow the date in a date string.
Tails == { <<>>, <<"T", "1", "0", ":", "3", "0">> }

\* Date strings that are not a date in one of the five layouts.
OtherStrings ==
    { <<>>,
      <<"oggi">>,
      <<"ieri">>,
      <<"2", " ", "ore", " ", "fa">>,
      <<"5", " ", "marzo", " ", "2", "0", "2", "4">>,
      <<"1", "4", " ", "marzo", " ", "2", "0", "2", "3">>,
      <<"2", "0", "2", "4", "-", "1", "3", "-", "4", "5">> }

DateStrings(tdy) ==
    {Written(DaysBefore(tdy, n), f[1], f[2]) \o tl :
        n \in (0 - MaxDaysAhead)..MaxDaysAgo, f \in Range(date_formats), tl \in Tails}
    \cup OtherStrings

DateInit ==
    /\ today \in Todays
    /\ date_str \in DateStrings(today)
    /\ max_days \in (0 - 1)..MaxDaysAgo
    /\ recent = [is_recent |-> FALSE, reason |-> "pending"]
    /\ date_pc = "call"
    /\ PostIdle /\ SimIdle /\ ClusterIdle /\ CitIdle /\ FeedIdle /\ SseIdle

IsDateRecent ==
    /\ date_pc = "call"
    /\ date_pc' = "done"
    /\ recent' = is_date_recent(date_str, max_days, today)
    /\ UNCHANGED <<today, date_str, max_days, postVars, simVars, clusterVars, citVars, feedVars, sseVars>>

DateNext == IsDateRecent

SpecDate == DateInit /\ [][DateNext]_vars

\* date_str is the YYYY-MM-DD form of the day n days before today.
IsDaysAgo(n) == date_str = Written(DaysBefore(today, n), "ymd", "-")

\* C10 as stated: for every N >= 0 the date N days before today is recent
\* under max_days = N and not recent under max_days = N - 1.
C10_AsStated ==
    date_pc = "done" =>
        \A n \in 0..MaxDaysAgo :
            IsDaysAgo(n) =>
                /\ (max_days = n) => recent.is_recent
                /\ (max_days = n - 1) => ~recent.is_recent

\* C10: for every N >= 0 the date N days before today is recent under
\* max_days = N; for every N >= 1 it is not recent under max_days = N - 1;
\* today's own date is recent under every max_days.
C10_Boundary ==
    date_pc = "done" =>
        \A n \in 0..MaxDaysAgo :
            IsDaysAgo(n) =>
                /\ (max_days = n) => recent.is_recent
                /\ (n >= 1 /\ max_days = n - 1) => ~recent.is_recent
                /\ (n = 0) => recent.is_recent

\* A date in the previous month or year, N >= 2 days back, judged under
\* max_days = N - 1 and found too old.
C10_Witness ==
    /\ date_pc = "done"
    /\ \E n \in 2..MaxDaysAgo : IsDaysAgo(n) /\ max_days = n - 1
    /\ date_str[6] # isoformat(today)[6] \/ date_str[7] # isoformat(today)[7]
    /\ recent = [is_recent |-> FALSE, reason |-> "too old"]

\* C11: under max_days = 0 a calendar date is recent only if it is today's
\* date: every other date, earlier or later than today, is not recent.
C11_TodayOnly ==
    (date_pc = "done" /\ max_days = 0) =>
        \A n \in (0 - MaxDaysAhead)..MaxDaysAgo :
            (IsDaysAgo(n) /\ n # 0) => ~recent.is_recent

(***************************************************************************)
(* get_domain (news_utils.py), filter_citations and the end of search_news *)
(* (news_search.py).  A URL is a sequence of atoms: the scheme "https:",   *)
(* the characters "/", ".", "-", one-letter labels, and words that the     *)
(* exclusion patterns match only as a whole.                               *)
(***************************************************************************)

\* str.lower() on the atoms that hold upper-case letters
lower_atom(a) ==
    IF a = "VIDEO" THEN "video"
    ELSE IF a = "A" THEN "a"
    ELSE a

lower(chars) == [i \in DOMAIN chars |-> lower_atom(chars[i])]

startswith(chars, prefix) ==
    Len(chars) >= Len(prefix) /\ SubSeq(chars, 1, Len(prefix)) = prefix

endswith(chars, suffix) ==
    Len(chars) >= Len(suffix)
    /\ SubSeq(chars, Len(chars) - Len(suffix) + 1, Len(chars)) = suffix

\* urlparse(url).netloc: what stands between "//" and the next "/",
\* empty when the URL has no "//" after its scheme.
netloc(url) ==
    IF Len(url) >= 3 /\ url[2] = "/" /\ url[3] = "/"
    THEN LET rest  == SubSeq(url, 4, Len(url))
             stops == {i \in DOMAIN rest : rest[i] = "/"}
         IN  IF stops = {} THEN rest
             ELSE SubSeq(rest, 1, (CHOOSE i \in stops : \A j \in stops : i <= j) - 1)
    ELSE <<>>

get_domain(url) ==
    LET domain == netloc(url)
    IN  IF startswith(domain, <<"www", ".">>)
        THEN SubSeq(domain, 3, Len(domain))
        ELSE domain

video_patterns ==
    << <<"/", "video", "/">>, <<"/", "video", "-">>, <<"-", "video">>, <<"video", ".">>,
       <<"youtube", ".", "com">>, <<"youtu", ".", "be">>, <<"vimeo", ".", "com">>,
       <<"dailymotion", ".", "com">>, <<"/", "watch", "/">>, <<"/", "embed", "/">> >>

live_patterns ==
    << <<"/", "diretta", "/">>, <<"-", "diretta">>, <<"diretta", "-">>, <<"/", "live", "/">>,
       <<"-", "live">>, <<"live", "-">>, <<"/", "tempo", "-", "reale", "/">>,
       <<"real", "-", "time">>, <<"/", "liveblog", "/">>, <<"live", "-", "blog">>,
       <<"/", "minuto", "-", "per", "-", "minuto", "/">> >>

all_patterns == video_patterns \o live_patterns

is_video_or_live(url) ==
    \E i \in DOMAIN all_patterns : Contains(lower(url), all_patterns[i])

\* The test of one entry of blocked_domains against the lower-cased domain.
BlockedMatches(domain, blocked) ==
    LET blocked_lower == lower(blocked)
    IN  \/ domain = blocked_lower
        \/ endswith(domain, <<".">> \o blocked_lower)
        \/ Contains(domain, blocked_lower)

\* matched_blocked of the wrong end: the last matching entry.
matched_blocked_Last(url, blocked) ==
    LET domain == lower(get_domain(url))
        hits   == {i \in DOMAIN blocked : BlockedMatches(domain, blocked[i])}
    IN  IF hits = {} THEN <<>>
        ELSE blocked[CHOOSE i \in hits : \A j \in hits : i >= j]

\* matched_blocked after the loop over blocked_domains: the first entry that
\* matches (the loop breaks there), <<>> for None.
matched_blocked(url, blocked) ==
    LET domain == lower(get_domain(url))
        hits   == {i \in DOMAIN blocked : BlockedMatches(domain, blocked[i])}
    IN  IF hits = {} THEN <<>>
        ELSE blocked[CHOOSE i \in hits : \A j \in hits : i <= j]

is_blocked_domain(url, blocked) ==
    \E i \in DOMAIN blocked : BlockedMatches(lower(get_domain(url)), blocked[i])

\* The two reasons: "video/live" and f"blocked domain ({matched_blocked})".
VideoLive == [text |-> "video/live", blocked |-> <<>>]

BlockedDomain(b) == [text |-> "blocked domain", blocked |-> b]

\* reason with the blocked domain tested first.
reason_BlockedFirst(url, blocked) ==
    IF is_blocked_domain(url, blocked)
    THEN BlockedDomain(matched_blocked(url, blocked))
    ELSE VideoLive

reason(url, blocked) ==
    IF is_video_or_live(url)
    THEN VideoLive
    ELSE BlockedDomain(matched_blocked(url, blocked))

IsRemoved(url, blocked) == is_video_or_live(url) \/ is_blocked_domain(url, blocked)

\* filter_citations: (filtered, removed), both in input order.
filter_citations(cits, blocked) ==
    LET gone == SelectSeq(cits, LAMBDA u : IsRemoved(u, blocked))
    IN  [filtered |-> SelectSeq(cits, LAMBDA u : ~IsRemoved(u, blocked)),
         removed  |-> [i \in DOMAIN gone |-> <<gone[i], reason(gone[i], blocked)>>]]

\* getattr(response, 'citations', []): response is the dict that
\* chat_completions got from json.loads; the keys of a dict are not its
\* attributes, so getattr hands back the default.
getattr_citations(response) == <<>>

\* list(set(urls)): the distinct elements, in an order the hash decides.
list_of_set(urls) ==
    LET S == Range(urls)
    IN  {order \in [1..Cardinality(S) -> S] : Range(order) = S}

MaxCitations == 2
MaxBlocked == 2
MaxHarvest == 2

Https == <<"https:", "/", "/">>

UrlPool ==
    { Https \o <<"a", ".", "it", "/", "x">>,
      Https \o <<"b", ".", "it", "/", "y">>,
      Https \o <<"www", ".", "a", ".", "it", "/", "video", "/", "x">>,
      Https \o <<"b", "a", ".", "it", "/", "x">>,
      Https \o <<"b", ".", "a", ".", "it", "/", "y">>,
      Https \o <<"b", ".", "it", "/", "VIDEO", "/", "y">>,
      Https \o <<"a", ".", "it", "/", "x", "-", "live">>,
      Https \o <<"video", ".", "b", ".", "it", "/", "x">>,
      <<"a", ".", "it", "/", "x">> }

BlockedPool ==
    { <<"a", ".", "it">>, <<"b", ".", "it">>, <<"A", ".", "it">>, <<"b", ".", "a", ".", "it">> }

HarvestPool ==
    { Https \o <<"a", ".", "it", "/", "x">>,
      Https \o <<"b", ".", "it", "/", "y">> }

SeqsUpTo(S, n) == UNION {[1..k -> S] : k \in 0..n}

\* Either filter_citations is called on a list, or search_news is called and
\* its search answer and home-page harvest are what they are.
CitInit ==
    /\ \/ /\ cit_pc = "filter_call"
          /\ citations \in SeqsUpTo(UrlPool, MaxCitations)
          /\ response_citations = <<>>
          /\ home_citations = <<>>
       \/ /\ cit_pc = "search_call"
          /\ citations = <<>>
          /\ response_citations \in SeqsUpTo(HarvestPool, MaxHarvest)
          /\ home_citations \in SeqsUpTo(HarvestPool, MaxHarvest)
    /\ blocked_domains \in SeqsUpTo(BlockedPool, MaxBlocked)
    /\ filtered = <<>>
    /\ removed = <<>>
    /\ PostIdle /\ SimIdle /\ ClusterIdle /\ DateIdle /\ FeedIdle /\ SseIdle

FilterCitations ==
    /\ cit_pc = "filter_call"
    /\ cit_pc' = "filter_done"
    /\ filtered' = filter_citations(citations, blocked_domains).filtered
    /\ removed' = filter_citations(citations, blocked_domains).removed
    /\ UNCHANGED <<citations, blocked_domains, response_citations, home_citations>>
    /\ UNCHANGED <<postVars, simVars, clusterVars, dateVars, feedVars, sseVars>>

\* search_news from the answer of chat_completions to its return.
SearchNews ==
    /\ cit_pc = "search_call"
    /\ cit_pc' = "search_done"
    /\ LET response == [content |-> "text", citations |-> response_citations]
           raw_citations == getattr_citations(response)
           all_raw_citations == raw_citations \o home_citations
       IN  \E order \in list_of_set(all_raw_citations) :
               /\ citations' = order
               /\ filtered' = filter_citations(order, blocked_domains).filtered
               /\ removed' = filter_citations(order, blocked_domains).removed
    /\ UNCHANGED <<blocked_domains, response_citations, home_citations>>
    /\ UNCHANGED <<postVars, simVars, clusterVars, dateVars, feedVars, sseVars>>

CitNext == FilterCitations \/ SearchNews

SpecCitations == CitInit /\ [][CitNext]_vars

\* C12: every URL of the input that contains "/video/" is in removed with
\* reason "video/live" and is not in filtered, whatever the blocked list.
C12_VideoRemoved ==
    cit_pc \in {"filter_done", "search_done"} =>
        \A i \in DOMAIN citations :
            Contains(citations[i], <<"/", "video", "/">>) =>
                /\ citations[i] \notin Range(filtered)
                /\ <<citations[i], VideoLive>> \in Range(removed)
                /\ \A j \in DOMAIN removed :
                       removed[j][1] = citations[i] => removed[j][2] = VideoLive

\* A "/video/" URL on a blocked domain was filtered and removed as video/live.
C12_Witness ==
    /\ cit_pc = "filter_done"
    /\ \E i \in DOMAIN citations :
           /\ Contains(citations[i], <<"/", "video", "/">>)
           /\ is_blocked_domain(citations[i], blocked_domains)
           /\ <<citations[i], VideoLive>> \in Range(removed)
    /\ filtered # <<>>

\* The URL's domain is exactly blocked_domains[k] (both in lower case).
DomainEquals(url, k) == lower(get_domain(url)) = lower(blocked_domains[k])

\* C13 as stated: every URL whose domain exactly equals a blocked domain is
\* removed, and its reason is "blocked domain (b)" for that blocked domain b.
C13_AsStated ==
    cit_pc \in {"filter_done", "search_done"} =>
        \A i \in DOMAIN citations : \A k \in DOMAIN blocked_domains :
            DomainEquals(citations[i], k) =>
                /\ citations[i] \notin Range(filtered)
                /\ \E j \in DOMAIN removed : removed[j][1] = citations[i]
                /\ \A j \in DOMAIN removed :
                       removed[j][1] = citations[i] =>
                           /\ removed[j][2].text = "blocked domain"
                           /\ lower(removed[j][2].blocked) = lower(blocked_domains[k])

\* C13: every URL whose domain exactly equals a blocked domain is removed;
\* its reason is "video/live" when the URL matches a video/live pattern, and
\* otherwise "blocked domain (b)" where b is the first entry of the blocked
\* list that the domain equals, is a subdomain of, or contains.
C13_BlockedRemoved ==
    cit_pc \in {"filter_done", "search_done"} =>
        \A i \in DOMAIN citations : \A k \in DOMAIN blocked_domains :
            DomainEquals(citations[i], k) =>
                /\ citations[i] \notin Range(filtered)
                /\ \E j \in DOMAIN removed : removed[j][1] = citations[i]
                /\ \A j \in DOMAIN removed :
                       removed[j][1] = citations[i] =>
                           IF is_video_or_live(citations[i])
                           THEN removed[j][2] = VideoLive
                           ELSE \E f \in 1..k :
                                    /\ BlockedMatches(lower(get_domain(citations[i])),
                                                      blocked_domains[f])
                                    /\ \A e \in 1..(f - 1) :
                                           ~BlockedMatches(lower(get_domain(citations[i])),
                                                           blocked_domains[e])
                                    /\ removed[j][2] = BlockedDomain(blocked_domains[f])

\* A URL that is no video or live page and whose domain is the second
\* blocked entry, while the first entry is a different domain contained in
\* it: the URL is removed and the reason names the first entry.
C13_Witness ==
    /\ cit_pc = "filter_done"
    /\ Len(blocked_domains) = 2
    /\ lower(blocked_domains[1]) # lower(blocked_domains[2])
    /\ \E i \in DOMAIN citations :
           /\ DomainEquals(citations[i], 2)
           /\ ~is_video_or_live(citations[i])
           /\ <<citations[i], BlockedDomain(blocked_domains[1])>> \in Range(removed)

\* The elements of a list without the repeats, in order of first occurrence.
FirstOccurrences(urls) ==
    LET firsts == {i \in DOMAIN urls : \A j \in 1..(i - 1) : urls[j] # urls[i]}
        F[i \in 0..Len(urls)] ==
            IF i = 0 THEN <<>>
            ELSE IF i \in firsts THEN Append(F[i - 1], urls[i]) ELSE F[i - 1]
    IN  F[Len(urls)]

\* The URLs of a list that filter_citations does not remove.
Kept(urls) == SelectSeq(urls, LAMBDA u : ~IsRemoved(u, blocked_domains))

\* C14: filtering a list yields each distinct non-removed URL exactly once, in
\* order of first occurrence; the list is the argument of filter_citations,
\* or the URLs that search_news gathered.
C14_DedupInOrder ==
    /\ cit_pc = "filter_done" => filtered = FirstOccurrences(Kept(citations))
    /\ cit_pc = "search_done" => filtered = FirstOccurrences(Kept(home_citations))

\* C15: the citations that search_news returns hold every URL of the search
\* API's answer that filter_citations does not remove.
C15_ApiCitationsKept ==
    cit_pc = "search_done" =>
        \A i \in DOMAIN response_citations :
            ~IsRemoved(response_citations[i], blocked_domains) =>
                response_citations[i] \in Range(filtered)

(***************************************************************************)
(* generate_feed (news_search.py) with fetch_article_content and           *)
(* call_feed_summary_api (news_utils.py), and its caller process_cluster   *)
(* (news_search_lambda.py).                                                *)
(***************************************************************************)

\* date.today() during the run
FeedToday == [year |-> 2024, month |-> 3, day |-> 10]

\* The YYYY-MM-DD string of the day n days before the run.
PublishedDaysAgo(n) == Written(DaysBefore(FeedToday, n), "ymd", "-")

\* What a GET of an article page leads to in fetch_article_content:
\*   "ok"      the try block ran to its end: content_text_length is set;
\*   "failed"  status != 200, or an exception before any field was read:
\*             the article dict is returned as it was initialised;
\*   "partial" an exception after the date was read and before
\*             content_text_length was set.
Web(url) ==
    CASE url = <<"r", 1>> -> [status |-> "ok", length |-> 800,  date |-> PublishedDaysAgo(0)]
      [] url = <<"r", 2>> -> [status |-> "ok", length |-> 1200, date |-> PublishedDaysAgo(5)]
      [] url[1] = "r" /\ url[2] > 2
                          -> [status |-> "ok", length |-> 1200, date |-> PublishedDaysAgo(0)]
      [] url = <<"j", 1>> -> [status |-> "ok", length |-> 1200, date |-> <<>>]
      [] url = <<"j", 2>> -> [status |-> "ok", length |-> 1200, date |-> PublishedDaysAgo(11)]
      [] url = <<"j", 3>> -> [status |-> "partial", length |-> 0, date |-> PublishedDaysAgo(0)]
      [] url = <<"s", 1>> -> [status |-> "ok", length |-> 800,  date |-> PublishedDaysAgo(0)]
      [] url = <<"s", 2>> -> [status |-> "ok", length |-> 1200, date |-> PublishedDaysAgo(0)]
      [] OTHER            -> [status |-> "failed", length |-> 0, date |-> <<>>]

\* fetch_article_content(url): the fields of the article that generate_feed
\* reads.  has_length tells whether the key content_text_length is there;
\* content is empty exactly when it is not.
fetch_article_content(url) ==
    LET page == Web(url)
    IN  [link |-> url,
         published_date |-> IF page.status = "failed" THEN <<>> ELSE page.date,
         has_length |-> page.status = "ok",
         content_text_length |-> IF page.status = "ok" THEN page.length ELSE 0]

\* len() of a text given by its tokens: the tokens and one blank between two.
RECURSIVE StrLen(_)
StrLen(text) ==
    IF text = <<>> THEN 0
    ELSE IF Len(text) = 1 THEN Len(Head(text))
    ELSE Len(Head(text)) + 1 + StrLen(Tail(text))

\* article.get('content_text_length', len(article.get('content', ''))) after
\* an empty content was replaced by the item's snippet
content_length(article, item) ==
    IF article.has_length THEN article.content_text_length ELSE StrLen(item.snippet)

\* max_days = 0 if must_be_fresh else 10
max_days_of(fresh) == IF fresh THEN 0 ELSE 10

\* The three checks on a fetched article: "ok", or the reason of the discard.
Verdict(article, item, min_len, fresh) ==
    IF content_length(article, item) < min_len THEN "length"
    ELSE IF article.published_date = <<>> THEN "no_date"
    ELSE IF ~is_date_recent(article.published_date, max_days_of(fresh), FeedToday).is_recent
         THEN "old_date"
    ELSE "ok"

\* The bound of the validation loops on len(validated_articles)
max_validated == 5

\* The loop "for item in sorted_cluster" (Pass 1) / "for candidate in
\* enriched_cluster" (Pass 2) from position k on.  acc holds
\* validated_articles, the track_discard calls and the links fetched.
RECURSIVE ValidationLoop(_, _, _, _, _)
ValidationLoop(cands, k, min_len, fresh, acc) ==
    IF k > Len(cands) \/ Len(acc.validated) >= max_validated THEN acc
    ELSE LET item    == cands[k]
             article == fetch_article_content(item.link)
             verdict == Verdict(article, item, min_len, fresh)
         IN  ValidationLoop(cands, k + 1, min_len, fresh,
                 [validated |-> IF verdict = "ok"
                                THEN Append(acc.validated, article)
                                ELSE acc.validated,
                  discarded |-> IF verdict = "ok"
                                THEN acc.discarded
                                ELSE Append(acc.discarded,
                                            [link |-> item.link, reason |-> verdict]),
                  fetched   |-> Append(acc.fetched, item.link)])

Validate(cands, min_len, fresh) ==
    ValidationLoop(cands, 1, min_len, fresh,
                   [validated |-> <<>>, discarded |-> <<>>, fetched |-> <<>>])

\* top_sources.get(ref_iab_code, [])
preferred_domains == << <<"a", ".", "it">> >>

\* get_priority(item)
get_priority(item) ==
    IF \E i \in DOMAIN preferred_domains :
           \/ Contains(item.source_domain, preferred_domains[i])
           \/ Contains(preferred_domains[i], item.source_domain)
    THEN 0
    ELSE 1

\* sorted(cluster, key=get_priority): stable
sorted_cluster(cluster) ==
    SelectSeq(cluster, LAMBDA it : get_priority(it) = 0)
        \o SelectSeq(cluster, LAMBDA it : get_priority(it) = 1)

\* The threshold of the fuzzy matching of Pass 2, as a percentage
FuzzyThresholdPct == 15

\* enriched_cluster of Pass 2 for the single-article cluster at position k
enriched_cluster(singles, k) ==
    LET item   == singles[k][1]
        others == SelectSeq(singles,
                      LAMBDA oc : /\ oc[1].link # item.link
                                  /\ AtLeast(calculate_similarity(ItemText(item),
                                                                  ItemText(oc[1])),
                                             FuzzyThresholdPct))
    IN  <<item>> \o [i \in DOMAIN others |-> others[i][1]]

\* current_min_len that never takes the threshold of the multi-article case.
current_min_len_AlwaysSingle(enriched) == min_len_single

\* current_min_len that always takes the threshold of the multi-article case.
current_min_len_AlwaysMulti(enriched) == min_len_multi

\* current_min_len
current_min_len(enriched) ==
    IF Len(enriched) > 1 THEN min_len_multi ELSE min_len_single

multi_article_clusters == SelectSeq(feed_clusters, LAMBDA c : Len(c) >= 2)

single_article_clusters == SelectSeq(feed_clusters, LAMBDA c : Len(c) = 1)

MaxResultsBound == 2
MaxFamily == 7
MaxPages == 2

\* The values of min_len_multi and min_len_single
MinLens == {10, 1000}

\* The citation URLs that Step 1 can come up with.
PagePool == { <<"p", 1>> }

\* The news items that Step 2 can extract: a link, a title, a snippet and
\* the domain of the link.  The "r" items tell one story, the "j" items
\* another, the "s" items one each; "s1" and "s2" share one keyword of five.
RItem(i) ==
    [link |-> <<"r", i>>, title |-> <<"roma", "lazio", "derby">>, snippet |-> <<>>,
     source_domain |-> IF i = 6 THEN <<"a", ".", "it">> ELSE <<"b", ".", "it">>]

JItem(i) ==
    [link |-> <<"j", i>>, title |-> <<"juve", "napoli", "torino">>,
     snippet |-> IF i = 3 THEN <<"juve", "napoli", "torino">> ELSE <<>>,
     source_domain |-> <<"b", ".", "it">>]

Singles ==
    << [link |-> <<"s", 1>>, title |-> <<"milan", "inter", "genoa">>, snippet |-> <<>>,
        source_domain |-> <<"b", ".", "it">>],
       [link |-> <<"s", 2>>, title |-> <<"milan", "parma", "bari">>, snippet |-> <<>>,
        source_domain |-> <<"b", ".", "it">>],
       [link |-> <<"s", 3>>, title |-> <<"lecce", "pisa", "empoli">>, snippet |-> <<>>,
        source_domain |-> <<"b", ".", "it">>] >>

\* The sub-lists of a list: its elements at a set of positions, in order.
RECURSIVE SubLists(_)
SubLists(list) ==
    IF list = <<>> THEN {<<>>}
    ELSE LET rest == SubLists(Tail(list))
         IN  rest \cup {<<Head(list)>> \o l : l \in rest}

NewsLists ==
    {[i \in 1..a |-> RItem(i)] \o [i \in 1..b |-> JItem(i)] \o sub :
        a \in 0..MaxFamily, b \in 0..3, sub \in SubLists(Singles)}

\* The values a call of generate_feed can start from.
FeedInit ==
    /\ cluster_known \in BOOLEAN
    /\ upto_step \in {NoStep, 1, 2, 3}
    /\ max_results \in 0..MaxResultsBound
    /\ must_be_fresh \in BOOLEAN
    /\ min_len_multi \in MinLens
    /\ min_len_single \in MinLens
    /\ feed_citations = <<>> /\ all_news_raw = <<>> /\ all_news = <<>>
    /\ feed_clusters = <<>>
    /\ final_feed = <<>> /\ validated_sets = <<>> /\ discards = <<>>
    /\ trace = <<>> /\ cursor = 0
    /\ feed_pc = "start"
    /\ feed_ret = "pending"
    /\ caller = "waiting"
    /\ PostIdle /\ SimIdle /\ ClusterIdle /\ DateIdle /\ CitIdle /\ SseIdle

otherVars == <<postVars, simVars, clusterVars, dateVars, citVars, sseVars>>

feedArgs == <<cluster_known, upto_step, max_results, must_be_fresh, min_len_multi,
              min_len_single>>

\* A run that no checkpoint stops.
StopsAt_Never(k) == FALSE

\* "if upto_step == k": the checkpoint after step k
StopsAt(k) == upto_step = k

\* "return []"
ReturnList ==
    /\ feed_pc' = "returned"
    /\ feed_ret' = "list"

\* "return final_feed, clusters"
ReturnPair ==
    /\ feed_pc' = "returned"
    /\ feed_ret' = "pair"

\* The lookup of the cluster; an unknown cluster id ends the run.
LoadCluster ==
    /\ feed_pc = "start"
    /\ IF ~cluster_known
       THEN ReturnList
       ELSE feed_pc' = "step1" /\ UNCHANGED feed_ret
    /\ UNCHANGED <<feedArgs, feed_citations, all_news_raw, all_news, feed_clusters, final_feed,
                   validated_sets, discards, trace, cursor, caller, otherVars>>

\* Step 1 for a cluster of one category: search_news for today's news, a
\* second search_news for the last days unless the cluster must be fresh,
\* then the removal of duplicates in order of first occurrence.
Search ==
    /\ feed_pc = "step1"
    /\ \E all_citations \in SeqsUpTo(PagePool, MaxPages) :
           /\ feed_citations' = FirstOccurrences(all_citations)
           /\ IF StopsAt(1) \/ FirstOccurrences(all_citations) = <<>>
              THEN ReturnList
              ELSE feed_pc' = "step2" /\ UNCHANGED feed_ret
    /\ trace' = trace \o (IF must_be_fresh
                          THEN << <<"search_news", <<>>>> >>
                          ELSE << <<"search_news", <<>>>>, <<"search_news", <<>>>> >>)
    /\ UNCHANGED <<feedArgs, all_news_raw, all_news, feed_clusters, final_feed,
                   validated_sets, discards, cursor, caller, otherVars>>

\* Step 1 when a search_news call raises: chat_completions is called outside
\* any try block, so the OpenRouterError that _post_json raises on a transport
\* failure or an error status leaves search_news and generate_feed.  The
\* failing call is the first or, for a cluster that need not be fresh, the
\* second.
SearchFails ==
    /\ feed_pc = "step1"
    /\ \E calls \in 1..(IF must_be_fresh THEN 1 ELSE 2) :
           trace' = trace \o [i \in 1..calls |-> <<"search_news", <<>>>>]
    /\ feed_pc' = "raised"
    /\ feed_ret' = "OpenRouterError"
    /\ UNCHANGED <<feedArgs, feed_citations, all_news_raw, all_news, feed_clusters, final_feed,
                   validated_sets, discards, cursor, caller, otherVars>>

\* Step 2: extract_news_from_page for each of the first ten citations (each
\* entry of the trace stands for the page and, when it is tried, its parent),
\* then the removal of items with a link seen before.
Extract ==
    /\ feed_pc = "step2"
    /\ \E news \in NewsLists :
           /\ all_news_raw' = news
           /\ all_news' = news
           /\ IF StopsAt(2) \/ news = <<>>
              THEN ReturnList
              ELSE feed_pc' = "step3" /\ UNCHANGED feed_ret
    /\ trace' = trace \o [i \in 1..Min(Len(feed_citations), 10) |->
                              <<"extract_news_from_page", feed_citations[i]>>]
    /\ UNCHANGED <<feedArgs, feed_citations, feed_clusters, final_feed,
                   validated_sets, discards, cursor, caller, otherVars>>

\* Step 3: clusters of items.
Cluster ==
    /\ feed_pc = "step3"
    /\ \E byPos \in {cluster_news_by_similarity(all_news)} :
           feed_clusters' = [c \in DOMAIN byPos |->
                                [k \in DOMAIN byPos[c] |-> all_news[byPos[c][k]]]]
    /\ trace' = Append(trace, <<"cluster_news_by_similarity", <<>>>>)
    /\ IF StopsAt(3)
       THEN ReturnList /\ UNCHANGED cursor
       ELSE feed_pc' = "pass1" /\ cursor' = 1 /\ UNCHANGED feed_ret
    /\ UNCHANGED <<feedArgs, feed_citations, all_news_raw, all_news, final_feed,
                   validated_sets, discards, caller, otherVars>>

\* The loops of Step 4 that never stop for a full feed.
FeedFull_Never == FALSE

\* A test that lets the loops of Step 4 run one item too far.
FeedFull_OneMore == Len(final_feed) > max_results

\* "len(final_feed) >= max_results", the test that breaks the loops of Step 4
FeedFull == Len(final_feed) >= max_results

\* The body of both loops of Step 4 from the validation on: the candidates
\* are fetched and checked one by one, call_feed_summary_api is called when
\* an article passed, and its answer, if there is one, becomes a feed item.
SelectAndSummarize(cands, min_len, pass, summary_response) ==
    \E v \in {Validate(cands, min_len, must_be_fresh)} :
        /\ validated_sets' = Append(validated_sets,
                                    [pass |-> pass,
                                     candidates |-> [i \in DOMAIN cands |-> cands[i].link],
                                     fetched |-> v.fetched,
                                     articles |-> v.validated,
                                     min_len |-> min_len])
        /\ discards' = discards \o [i \in DOMAIN v.discarded |->
                                        [link |-> v.discarded[i].link,
                                         reason |-> v.discarded[i].reason,
                                         pass |-> pass]]
        /\ trace' = trace
                    \o [i \in DOMAIN v.fetched |-> <<"fetch_article_content", v.fetched[i]>>]
                    \o (IF v.validated # <<>>
                        THEN << <<"call_feed_summary_api", <<>>>> >>
                        ELSE <<>>)
        /\ final_feed' =
               IF v.validated # <<>> /\ summary_response
               THEN Append(final_feed,
                           [cluster_size |-> Len(v.validated),
                            link |-> [i \in DOMAIN v.validated |-> v.validated[i].link]])
               ELSE final_feed

\* One turn of "for cluster in multi_article_clusters".
Pass1Cluster ==
    /\ feed_pc = "pass1"
    /\ cursor <= Len(multi_article_clusters)
    /\ ~FeedFull
    /\ \E summary_response \in BOOLEAN :
           SelectAndSummarize(sorted_cluster(multi_article_clusters[cursor]),
                              min_len_multi, 1, summary_response)
    /\ cursor' = cursor + 1
    /\ UNCHANGED <<feedArgs, feed_citations, all_news_raw, all_news, feed_clusters,
                   feed_pc, feed_ret, caller, otherVars>>

\* The end of Pass 1 and the test that guards Pass 2.
Pass1Done ==
    /\ feed_pc = "pass1"
    /\ cursor > Len(multi_article_clusters) \/ FeedFull
    /\ IF Len(final_feed) < max_results /\ single_article_clusters # <<>>
       THEN feed_pc' = "pass2" /\ cursor' = 1 /\ UNCHANGED feed_ret
       ELSE ReturnPair /\ UNCHANGED cursor
    /\ UNCHANGED <<feedArgs, feed_citations, all_news_raw, all_news, feed_clusters, final_feed,
                   validated_sets, discards, trace, caller, otherVars>>

\* One turn of "for cluster in single_article_clusters".
Pass2Cluster ==
    /\ feed_pc = "pass2"
    /\ cursor <= Len(single_article_clusters)
    /\ ~FeedFull
    /\ \E enriched \in {enriched_cluster(single_article_clusters, cursor)},
          summary_response \in BOOLEAN :
               SelectAndSummarize(enriched, current_min_len(enriched), 2, summary_response)
    /\ cursor' = cursor + 1
    /\ UNCHANGED <<feedArgs, feed_citations, all_news_raw, all_news, feed_clusters,
                   feed_pc, feed_ret, caller, otherVars>>

Pass2Done ==
    /\ feed_pc = "pass2"
    /\ cursor > Len(single_article_clusters) \/ FeedFull
    /\ ReturnPair
    /\ UNCHANGED <<feedArgs, feed_citations, all_news_raw, all_news, feed_clusters, final_feed,
                   validated_sets, discards, trace, cursor, caller, otherVars>>

\* process_cluster: "feed, _ = generate_feed(...)" takes a pair apart; the
\* empty list has no two values to give.  The call is in no try block: an
\* exception of generate_feed is the exception of process_cluster.
ProcessCluster ==
    /\ feed_pc \in {"returned", "raised"}
    /\ caller = "waiting"
    /\ caller' = IF feed_pc = "raised" THEN feed_ret
               ELSE IF feed_ret = "pair" THEN "completed" ELSE "ValueError"
    /\ UNCHANGED <<feedArgs, feed_citations, all_news_raw, all_news, feed_clusters, final_feed,
                   validated_sets, discards, trace, cursor, feed_pc, feed_ret, otherVars>>

FeedNext ==
    \/ LoadCluster \/ Search \/ SearchFails \/ Extract \/ Cluster
    \/ Pass1Cluster \/ Pass1Done \/ Pass2Cluster \/ Pass2Done
    \/ ProcessCluster

SpecFeed == FeedInit /\ [][FeedNext]_vars

\* The step of generate_feed that a call of the trace belongs to.
StepOfCall(call) ==
    CASE call[1] = "search_news"                -> 1
      [] call[1] = "extract_news_from_page"     -> 2
      [] call[1] = "cluster_news_by_similarity" -> 3
      [] OTHER                                  -> 4

StepsDone == {StepOfCall(trace[i]) : i \in DOMAIN trace}

StepsInOrder ==
    \A i, j \in DOMAIN trace : i < j => StepOfCall(trace[i]) <= StepOfCall(trace[j])

C17_PairOnEveryPath ==
    /\ feed_pc = "returned" => feed_ret = "pair"
    /\ caller # "ValueError"

\* C18: in Step 4 the feed never holds more than max_results items, and in
\* a state where it holds max_results items no step fetches an article,
\* validates one or asks for a summary, in Pass 1 and in Pass 2.
C18_Cap ==
    /\ [](feed_pc \in {"pass1", "pass2", "returned"} => Len(final_feed) <= max_results)
    /\ [][(feed_pc \in {"pass1", "pass2"} /\ Len(final_feed) = max_results)
              => (trace' = trace /\ validated_sets' = validated_sets
                                 /\ final_feed' = final_feed)]_vars

\* A run that filled the feed in Pass 1 with the first of two multi-article
\* clusters and returned: the second cluster and the single-article cluster
\* were never fetched.
C18_Witness ==
    /\ feed_pc = "returned"
    /\ max_results = 1
    /\ Len(final_feed) = 1
    /\ Len(multi_article_clusters) >= 2
    /\ single_article_clusters # <<>>
    /\ Len(validated_sets) = 1

\* The turns of Step 4 whose validated_articles is not empty.
NonEmptySets == {k \in DOMAIN validated_sets : validated_sets[k].articles # <<>>}

\* C19: every article of a validated set of Pass 1 has a content_text_length
\* of min_len_multi or more, a publish date, and a date that is_date_recent
\* accepts under max_days (0 for a fresh cluster, else 10); no validated set
\* holds more than 5 articles; a feed item is emitted only for a validated
\* set that is not empty.
C19_ValidatedPass1 ==
    /\ \A k \in DOMAIN validated_sets :
           /\ Len(validated_sets[k].articles) <= 5
           /\ validated_sets[k].pass = 1 =>
                  \A i \in DOMAIN validated_sets[k].articles :
                      LET article == validated_sets[k].articles[i]
                      IN  /\ article.has_length
                          /\ article.content_text_length >= min_len_multi
                          /\ article.published_date # <<>>
                          /\ is_date_recent(article.published_date,
                                            IF must_be_fresh THEN 0 ELSE 10,
                                            FeedToday).is_recent
    /\ Len(final_feed) <= Cardinality(NonEmptySets)
    /\ \A f \in DOMAIN final_feed : final_feed[f].cluster_size >= 1

\* The link was fetched in turn k of Step 4 and its article has a measured
\* length below min_len_multi.
ShortOfMulti(k, link) ==
    /\ \E i \in DOMAIN validated_sets[k].fetched : validated_sets[k].fetched[i] = link
    /\ fetch_article_content(link).has_length
    /\ fetch_article_content(link).content_text_length < min_len_multi

\* The article of the link was discarded for its length in turn k and is not
\* in the validated set of that turn.
DiscardedForLength(k, link) ==
    /\ \E d \in DOMAIN discards :
           discards[d] = [link |-> link, reason |-> "length",
                          pass |-> validated_sets[k].pass]
    /\ \A i \in DOMAIN validated_sets[k].articles :
           validated_sets[k].articles[i].link # link

\* C20 as stated: a fetched article with a content length below
\* min_len_multi is discarded with reason "length" and is in no validated
\* set, in Pass 1 and in Pass 2.
C20_AsStated ==
    \A k \in DOMAIN validated_sets :
        \A i \in DOMAIN validated_sets[k].fetched :
            ShortOfMulti(k, validated_sets[k].fetched[i])
                => DiscardedForLength(k, validated_sets[k].fetched[i])

\* C20: a fetched article with a content length below min_len_multi is
\* discarded with reason "length" and is not in the validated set, in Pass 1,
\* and in Pass 2 when the candidate set has two members or more or when
\* min_len_single >= min_len_multi; a single-article cluster that found no
\* similar one is judged against min_len_single.
C20_ShortDiscarded ==
    \A k \in DOMAIN validated_sets :
        (\/ validated_sets[k].pass = 1
         \/ Len(validated_sets[k].candidates) > 1
         \/ min_len_single >= min_len_multi)
            => \A i \in DOMAIN validated_sets[k].fetched :
                   ShortOfMulti(k, validated_sets[k].fetched[i])
                       => DiscardedForLength(k, validated_sets[k].fetched[i])

\* Pass 1 discarded an article of length 800 of a multi-article cluster under
\* min_len_multi = 1000 and validated the others, and Pass 2 discarded such
\* an article of a candidate set of two.
C20_Witness ==
    /\ min_len_multi = 1000
    /\ \E k \in DOMAIN validated_sets :
           /\ validated_sets[k].pass = 1
           /\ ShortOfMulti(k, <<"r", 1>>)
           /\ DiscardedForLength(k, <<"r", 1>>)
           /\ validated_sets[k].articles # <<>>
    /\ \E k \in DOMAIN validated_sets :
           /\ validated_sets[k].pass = 2
           /\ Len(validated_sets[k].candidates) = 2
           /\ ShortOfMulti(k, <<"s", 1>>)
           /\ DiscardedForLength(k, <<"s", 1>>)

(***************************************************************************)
(* Further properties of _post_json, cluster_news_by_similarity,           *)
(* search_news and generate_feed.                                          *)
(***************************************************************************)

\* C30: within one post call the i-th backoff sleep follows the i-th attempt
\* and has the attempt index i - 1; there is a sleep only after an attempt
\* answered with a retryable status or a transport failure, never after the
\* final attempt; so while the call runs there is one sleep per answered
\* attempt, when it has ended there is one sleep less than attempts, and
\* there are never more than max_retries sleeps.
C30_SleepBetweenAttempts ==
    /\ \A i \in DOMAIN sleeps :
           /\ sleeps[i] = i - 1
           /\ i <= Attempts
           /\ IsRetryableAnswer(responses[i]) \/ responses[i].kind = "urlerror"
    /\ pc = "loop" => Len(sleeps) = Attempts
    /\ pc \in {"returned", "raised"} => Len(sleeps) = Attempts - 1
    /\ Len(sleeps) <= max_retries

\* A call of three attempts that slept after the first (transport failure)
\* and the second (503) and ended on the third, answered with a 200 whose
\* body holds an error object.
C30_Witness ==
    /\ max_retries = 2
    /\ Attempts = 3
    /\ responses[1].kind = "urlerror"
    /\ IsRetryableAnswer(responses[2])
    /\ responses[3].kind = "http" /\ responses[3].status = 200
    /\ responses[3].body = "err_obj"
    /\ pc = "raised"
    /\ sleeps = <<0, 1>>

\* The items at positions p and q of news_items are similar enough to be
\* clustered, p being the seed.
Similar(p, q) ==
    AtLeast(calculate_similarity(ItemText(news_items[p]), ItemText(news_items[q])),
            SimilarityThresholdPct)

\* The positions of the seeds: the first member of each cluster.
Seeds == {clusters[c][1] : c \in DOMAIN clusters}

\* C23: clustering is greedy and seed-based.  The first item with a valid
\* title is a seed; the members of a cluster follow its seed in input order;
\* every non-seed member is similar to the seed of its cluster and to no
\* earlier seed, and no seed is similar to an earlier seed; so for three valid
\* items with sim(1,2) >= t, sim(2,3) >= t, sim(1,3) < t the result is
\* {1,2},{3}, and with sim(1,2) >= t, sim(1,3) >= t, sim(2,3) < t it is {1,2,3}.
C23_GreedySeeds ==
    cluster_pc = "done" =>
        /\ \A p \in DOMAIN news_items :
               (PassesTitleCheck(news_items[p])
                   /\ \A q \in 1..(p - 1) : ~PassesTitleCheck(news_items[q]))
                   => p \in Seeds
        /\ \A c \in DOMAIN clusters :
               /\ \A k \in 2..Len(clusters[c]) :
                      /\ clusters[c][k - 1] < clusters[c][k]
                      /\ Similar(clusters[c][1], clusters[c][k])
               /\ \A k \in DOMAIN clusters[c] :
                      \A s \in Seeds :
                          s < clusters[c][1] => ~Similar(s, clusters[c][k])
        /\ (Len(news_items) = 3 /\ \A p \in 1..3 : PassesTitleCheck(news_items[p])) =>
               /\ (Similar(1, 2) /\ Similar(2, 3) /\ ~Similar(1, 3))
                      => clusters = << <<1, 2>>, <<3>> >>
               /\ (Similar(1, 2) /\ Similar(1, 3) /\ ~Similar(2, 3))
                      => clusters = << <<1, 2, 3>> >>

\* Three items A, B, C in this order, B similar to both and A not similar to
\* C: the clusters are {A,B} and {C}.
C23_Witness ==
    /\ cluster_pc = "done"
    /\ Len(news_items) = 3
    /\ \A p \in 1..3 : PassesTitleCheck(news_items[p])
    /\ Similar(1, 2) /\ Similar(2, 3) /\ ~Similar(1, 3)
    /\ clusters = << <<1, 2>>, <<3>> >>

\* Three items B, A, C in this order, B similar to both and A not similar to
\* C: one cluster {B,A,C}.
C23_WitnessOther ==
    /\ cluster_pc = "done"
    /\ Len(news_items) = 3
    /\ \A p \in 1..3 : PassesTitleCheck(news_items[p])
    /\ Similar(1, 2) /\ Similar(1, 3) /\ ~Similar(2, 3)
    /\ clusters = << <<1, 2, 3>> >>

\* C24: in Pass 1 the content of at most 5 members of a cluster is fetched,
\* however many of the fetched members fail the validation.
C24_FetchAtMost5 ==
    \A k \in DOMAIN validated_sets :
        validated_sets[k].pass = 1 => Len(validated_sets[k].fetched) <= 5

\* The length generate_feed measures for the article of a link of all_news.
MeasuredLength(link) ==
    LET item == CHOOSE it \in Range(all_news) : it.link = link
    IN  content_length(fetch_article_content(link), item)

\* The links of the single-article clusters that are as similar to the one of
\* position k as the fuzzy matching asks for, the link of position k first.
FuzzySet(k) ==
    LET item  == single_article_clusters[k][1]
        alike == SelectSeq(single_article_clusters,
                     LAMBDA oc : /\ oc[1].link # item.link
                                 /\ calculate_similarity(ItemText(item), ItemText(oc[1])).num * 100
                                        >= 15 * calculate_similarity(ItemText(item),
                                                                     ItemText(oc[1])).den)
    IN  <<item.link>> \o [i \in DOMAIN alike |-> alike[i][1].link]

\* The turns of Pass 2, in the order of validated_sets.
Pass2Turns == SelectSeq(validated_sets, LAMBDA v : v.pass = 2)

\* C25: in Pass 2 the candidate set of a singleton is the singleton and the
\* other singletons of similarity >= 0.15 to it; the length threshold for
\* every candidate fetched is min_len_multi when the set has two members or
\* more and min_len_single when it holds the singleton alone: a candidate
\* below it is discarded for its length, a validated one is not below it.
C25_Pass2Threshold ==
    \A k \in DOMAIN Pass2Turns :
        LET turn == Pass2Turns[k]
            thr  == IF Len(turn.candidates) >= 2 THEN min_len_multi ELSE min_len_single
        IN  /\ turn.candidates = FuzzySet(k)
            /\ \A i \in DOMAIN turn.fetched :
                   MeasuredLength(turn.fetched[i]) < thr =>
                       /\ \A a \in DOMAIN turn.articles :
                              turn.articles[a].link # turn.fetched[i]
                       /\ \E d \in DOMAIN discards :
                              discards[d] = [link |-> turn.fetched[i],
                                             reason |-> "length", pass |-> 2]
            /\ \A a \in DOMAIN turn.articles :
                   MeasuredLength(turn.articles[a].link) >= thr
            /\ \A i \in DOMAIN turn.fetched :
                   (/\ MeasuredLength(turn.fetched[i]) >= thr
                    /\ Verdict(fetch_article_content(turn.fetched[i]),
                               CHOOSE it \in Range(all_news) : it.link = turn.fetched[i],
                               0, must_be_fresh) = "ok")
                       => \E a \in DOMAIN turn.articles :
                              turn.articles[a].link = turn.fetched[i]

\* A run with min_len_multi = 10 and min_len_single = 1000 in which the
\* article of length 800 was validated in a candidate set of two, and the
\* article of length 1200 of a singleton that found no similar one passed
\* min_len_single.
C25_Witness ==
    /\ min_len_multi = 10 /\ min_len_single = 1000
    /\ \E k \in DOMAIN Pass2Turns :
           /\ Len(Pass2Turns[k].candidates) = 2
           /\ \E a \in DOMAIN Pass2Turns[k].articles :
                  Pass2Turns[k].articles[a].link = <<"s", 1>>
    /\ \E k \in DOMAIN Pass2Turns :
           /\ Len(Pass2Turns[k].candidates) = 1
           /\ Pass2Turns[k].fetched # <<>>

\* The links of the items of the single-item clusters.
SingletonLinks == {single_article_clusters[c][1].link : c \in DOMAIN single_article_clusters}

\* The feed item was made from a multi-item cluster / from a singleton and
\* the singletons that enriched it.
FromMulti(item) == \A i \in DOMAIN item.link : item.link[i] \notin SingletonLinks

FromSingleton(item) == \A i \in DOMAIN item.link : item.link[i] \in SingletonLinks

\* C26: no single-item cluster is fetched, validated or summarized before
\* Pass 1 has finished with the multi-item clusters; a single-item cluster is
\* processed only in a state where the feed holds fewer than max_results
\* items; every feed item made from a multi-item cluster precedes every feed
\* item made from a singleton.
C26_MultiBeforeSingle ==
    /\ [](/\ \A i, j \in DOMAIN validated_sets :
                 (validated_sets[i].pass = 2 /\ validated_sets[j].pass = 1) => j < i
          /\ \A k \in DOMAIN validated_sets :
                 IF validated_sets[k].pass = 1
                 THEN \A i \in DOMAIN validated_sets[k].candidates :
                          validated_sets[k].candidates[i] \notin SingletonLinks
                 ELSE validated_sets[k].candidates[1] \in SingletonLinks
          /\ feed_pc = "pass1" =>
                 \A i \in DOMAIN trace :
                     trace[i][1] = "fetch_article_content" => trace[i][2] \notin SingletonLinks
          /\ \A f, g \in DOMAIN final_feed :
                 (FromSingleton(final_feed[f]) /\ FromMulti(final_feed[g])) => g < f
          /\ \A f \in DOMAIN final_feed :
                 FromSingleton(final_feed[f]) \/ FromMulti(final_feed[f]))
    /\ [][(feed_pc = "pass2" /\ validated_sets' # validated_sets)
              => Len(final_feed) < max_results]_vars

\* A returned feed of two items, the first made from a multi-item cluster
\* in Pass 1, the second from a singleton in Pass 2.
C26_Witness ==
    /\ feed_pc = "returned"
    /\ Len(final_feed) = 2
    /\ FromMulti(final_feed[1])
    /\ FromSingleton(final_feed[2])
    /\ \E k \in DOMAIN validated_sets : validated_sets[k].pass = 2

\* C29: within the feed of one run no article link is in the link list of
\* more than one feed item.
C29_LinkInOneItem ==
    \A f, g \in DOMAIN final_feed :
        f # g => \A i \in DOMAIN final_feed[f].link, j \in DOMAIN final_feed[g].link :
                     final_feed[f].link[i] # final_feed[g].link[j]

\* C28: the citations search_news returns, and their order, are a function
\* of its inputs: every order in which the set of the gathered URLs can be
\* listed gives the result that this run gave.
C28_OrderIsFunctionOfInputs ==
    cit_pc = "search_done" =>
        \A order \in list_of_set(getattr_citations([content |-> "text",
                                                    citations |-> response_citations])
                                     \o home_citations) :
            filter_citations(order, blocked_domains).filtered = filtered

\* C21: every network operation of a run fails soft, so no run of
\* generate_feed ends with an exception, and its caller sees none.
C21_FailSoft ==
    /\ feed_pc # "raised"
    /\ caller \in {"idle", "waiting", "completed", "ValueError"}

(***************************************************************************)
(* Step 2 of generate_feed turn by turn (news_search.py), with             *)
(* get_parent_url (news_utils.py).  A URL of the site is the list of the   *)
(* segments of its path and whether it ends with "/".                      *)
(***************************************************************************)

\* The longest list of citations that Step 2 is given.
MaxFeedCitations == 11

\* MIN_ITEMS_THRESHOLD
MIN_ITEMS_THRESHOLD == 10

\* get_parent_url(url): the empty list for None, else the list of the parent
get_parent_url(url) ==
    IF url.path = <<>> THEN <<>>
    ELSE << [path |-> SubSeq(url.path, 1, Len(url.path) - 1), dir |-> TRUE] >>

\* The i-th URL that Step 1 can hand over: the home page, a section with
\* many links, a section with few links, and articles of that section.
CitationUrl(i) ==
    CASE i = 1 -> [path |-> <<>>, dir |-> TRUE]
      [] i = 2 -> [path |-> <<1>>, dir |-> TRUE]
      [] i = 3 -> [path |-> <<0>>, dir |-> TRUE]
      [] OTHER -> [path |-> <<0, i>>, dir |-> FALSE]

\* extract_news_from_page(url, must_be_fresh, is_citation) on the site: the
\* items, of which the link matters here.  The articles with an even number
\* are five days old; the page of article 7 answers with status 500.
extract_news_from_page(url, fresh, is_citation) ==
    LET Article(i) == [link |-> [path |-> <<0, i>>, dir |-> FALSE]]
    IN  CASE url.path = <<>>  -> <<Article(4), Article(5)>>
          [] url.path = <<1>> -> [i \in 1..MIN_ITEMS_THRESHOLD |->
                                      [link |-> [path |-> <<1, i>>, dir |-> FALSE]]]
          [] url.path = <<0>> -> <<Article(4), Article(5), Article(6)>>
          [] Len(url.path) = 2 /\ url.path[1] = 0 ->
                 IF url.path[2] # 7 /\ is_citation /\ (url.path[2] % 2 = 1 \/ ~fresh)
                 THEN <<Article(url.path[2])>>
                 ELSE <<>>
          [] OTHER -> <<>>

\* A test that tries the parent of every page that has one.
TriesParent_Always(page_items, url) == get_parent_url(url) # <<>>

\* "len(news_items) < MIN_ITEMS_THRESHOLD" and "parent_url and parent_url != url"
TriesParent(page_items, url) ==
    /\ Len(page_items) < MIN_ITEMS_THRESHOLD
    /\ get_parent_url(url) # <<>>
    /\ get_parent_url(url)[1] # url

\* "Deduplicate all_news by URL": the items whose link no earlier item has
DedupeByLink(items) ==
    LET Keep(k) == \A j \in 1..(k - 1) : items[j].link # items[k].link
        RECURSIVE From(_)
        From(k) == IF k > Len(items) THEN <<>>
                   ELSE IF Keep(k) THEN <<items[k]>> \o From(k + 1)
                   ELSE From(k + 1)
    IN  From(1)

\* Step 2 begins: Step 1 has made its search_news calls and left a list of
\* distinct citations that is not empty.
ExtractInit ==
    /\ cluster_known = TRUE
    /\ upto_step \in {NoStep, 2, 3}
    /\ max_results = 1
    /\ must_be_fresh \in BOOLEAN
    /\ min_len_multi = 1000
    /\ min_len_single = 1000
    /\ \E n \in 1..MaxFeedCitations, r \in 0..MaxFeedCitations :
           feed_citations =
               [i \in 1..n |-> CitationUrl(((i + r - 1) % (MaxFeedCitations + 1)) + 1)]
    /\ trace = IF must_be_fresh
               THEN << <<"search_news", <<>>>> >>
               ELSE << <<"search_news", <<>>>>, <<"search_news", <<>>>> >>
    /\ all_news_raw = <<>> /\ all_news = <<>> /\ feed_clusters = <<>>
    /\ final_feed = <<>> /\ validated_sets = <<>> /\ discards = <<>>
    /\ cursor = 1
    /\ feed_pc = "step2"
    /\ feed_ret = "pending"
    /\ caller = "waiting"
    /\ PostIdle /\ SimIdle /\ ClusterIdle /\ DateIdle /\ CitIdle /\ SseIdle

\* One turn of "for i, url in enumerate(citations[:10])".  The calls of
\* extract_news_from_page are traced with their url and is_citation.
ExtractPage ==
    /\ feed_pc = "step2"
    /\ cursor <= Min(Len(feed_citations), 10)
    /\ LET url        == feed_citations[cursor]
           page_items == extract_news_from_page(url, must_be_fresh, TRUE)
       IN  IF TriesParent(page_items, url)
           THEN LET parent_url   == get_parent_url(url)[1]
                    parent_items == extract_news_from_page(parent_url, must_be_fresh, FALSE)
                    new_items    == SelectSeq(parent_items,
                                        LAMBDA it : \A k \in DOMAIN page_items :
                                                        page_items[k].link # it.link)
                IN  /\ all_news_raw' = all_news_raw \o page_items \o new_items
                    /\ trace' = trace \o << <<"extract_news_from_page", url, TRUE>>,
                                            <<"extract_news_from_page", parent_url, FALSE>> >>
           ELSE /\ all_news_raw' = all_news_raw \o page_items
                /\ trace' = Append(trace, <<"extract_news_from_page", url, TRUE>>)
    /\ cursor' = cursor + 1
    /\ UNCHANGED <<feedArgs, feed_citations, all_news, feed_clusters, final_feed,
                   validated_sets, discards, feed_pc, feed_ret, caller, otherVars>>

\* The end of the loop: the removal of items with a link seen before, the
\* checkpoint of Step 2 and the exit for "no news items".
ExtractDone ==
    /\ feed_pc = "step2"
    /\ cursor > Min(Len(feed_citations), 10)
    /\ all_news' = DedupeByLink(all_news_raw)
    /\ IF StopsAt(2) \/ DedupeByLink(all_news_raw) = <<>>
       THEN ReturnList
       ELSE feed_pc' = "step3" /\ UNCHANGED feed_ret
    /\ UNCHANGED <<feedArgs, feed_citations, all_news_raw, feed_clusters, final_feed,
                   validated_sets, discards, trace, cursor, caller, otherVars>>

ExtractNext == ExtractPage \/ ExtractDone

SpecExtract == ExtractInit /\ [][ExtractNext]_vars

\* The calls of extract_news_from_page made so far.
PageCalls == SelectSeq(trace, LAMBDA call : call[1] = "extract_news_from_page")

\* What the j-th call of extract_news_from_page may add to all_news_raw: the
\* items of a citation, and of a parent those with a link that the citation
\* fetched before it did not give.
RECURSIVE Gathered(_)
Gathered(j) ==
    IF j = 0 THEN <<>>
    ELSE Gathered(j - 1) \o
         (IF PageCalls[j][3]
          THEN extract_news_from_page(PageCalls[j][2], must_be_fresh, TRUE)
          ELSE SelectSeq(extract_news_from_page(PageCalls[j][2], must_be_fresh, FALSE),
                   LAMBDA it :
                       \A own \in Range(extract_news_from_page(PageCalls[j - 1][2],
                                                               must_be_fresh, TRUE)) :
                           own.link # it.link))

\* C27: in Step 2 only the first 10 citations are fetched, in order; the
\* parent of a citation is fetched at most once, right after the citation,
\* and only when the citation gave fewer than 10 items and has a parent other
\* than itself; no parent of a parent is fetched; of the items of a parent
\* only those with a link the citation did not give are merged; the list
\* handed to clustering has pairwise distinct links.
C27_ExtractBounded ==
    /\ SelectSeq(PageCalls, LAMBDA call : call[3]) =
           [i \in 1..(cursor - 1) |-> <<"extract_news_from_page", feed_citations[i], TRUE>>]
    /\ cursor - 1 <= 10
    /\ feed_pc # "step2" => cursor - 1 = Min(Len(feed_citations), 10)
    /\ \A j \in DOMAIN PageCalls :
           ~PageCalls[j][3] =>
               /\ j > 1
               /\ PageCalls[j - 1][3]
               /\ LET citation == PageCalls[j - 1][2]
                      parent   == PageCalls[j][2]
                  IN  /\ citation.path # <<>>
                      /\ parent.path = SubSeq(citation.path, 1, Len(citation.path) - 1)
                      /\ parent # citation
                      /\ Len(extract_news_from_page(citation, must_be_fresh, TRUE)) < 10
    /\ all_news_raw = Gathered(Len(PageCalls))
    /\ feed_pc # "step2" =>
           /\ \A i, j \in DOMAIN all_news : i # j => all_news[i].link # all_news[j].link
           /\ {all_news[i].link : i \in DOMAIN all_news}
                  = {all_news_raw[i].link : i \in DOMAIN all_news_raw}

\* Step 2 has ended for a list of 11 citations: 10 pages were fetched, some
\* of them with their parent and some without, the items gathered had links
\* in common and all_news has each link once.
C27_Witness ==
    /\ feed_pc = "step3"
    /\ Len(feed_citations) = 11
    /\ Len(SelectSeq(PageCalls, LAMBDA call : call[3])) = 10
    /\ \E j \in DOMAIN PageCalls : ~PageCalls[j][3]
    /\ \E j \in 1..(Len(PageCalls) - 1) : PageCalls[j][3] /\ PageCalls[j + 1][3]
    /\ Len(all_news) < Len(all_news_raw)

(***************************************************************************)
(* OpenRouterClient._post_sse (openrouter_client.py)                       *)
(***************************************************************************)

\* The most lines that a response is read for.
MaxLines == 4

\* The largest max_retries of a client that streams.
MaxSseRetries == 1

\* What "data:" lines hold after "line[len('data:'):].strip()":
\*   "done"    : [DONE]
\*   "open"    : {"id": 1,          the first half of an object
\*   "close"   : "choices": []}     the second half of it
\*   "ok", "err_obj", "garbage" : as in RawBody
SsePayload == {"done", "open", "close", "ok", "err_obj", "garbage"}

\* A line after rstrip("\n"): empty, a "data:" line, or another line (a
\* comment, an "event:" field, a lone carriage return).
SseLine ==
    [kind : {"blank", "other"}, data : {"none"}] \cup [kind : {"data"}, data : SsePayload]

\* A reader that does not know the [DONE] frame.
IsDone_Never(lines) == FALSE

\* '"\n".join(data_lines).strip() == "[DONE]"'
IsDone(lines) == lines = <<"done">>

\* json.loads("\n".join(data_lines).strip()): the two halves of an object
\* make an object, a single JSON text is itself, anything else does not parse.
sse_loads(lines) ==
    json_loads(CASE lines = <<"open", "close">> -> "ok"
                 [] Len(lines) = 1 /\ lines[1] \in {"ok", "err_obj"} -> lines[1]
                 [] OTHER -> "garbage")

\* The answers with which urlopen fails here.
SseHttpErrors == {r \in HttpError : r.status \in {404, 503} /\ r.body = "err_obj"}

SseInit ==
    /\ max_retries \in 0..MaxSseRetries
    /\ attempt = 0
    /\ pc = "loop"
    /\ responses = <<>>
    /\ sleeps = <<>>
    /\ last_err = NoError
    /\ result = NoResult
    /\ received = <<>> /\ data_lines = <<>> /\ yielded = <<>>
    /\ SimIdle /\ ClusterIdle /\ DateIdle /\ CitIdle /\ FeedIdle

\* urlopen answered 2xx: "data_lines = []" and the reading begins.
SseOpen ==
    /\ pc = "loop" /\ attempt <= max_retries
    /\ responses' = Append(responses, [kind |-> "http", status |-> 200, body |-> "stream"])
    /\ pc' = "reading"
    /\ data_lines' = <<>>
    /\ UNCHANGED <<max_retries, attempt, sleeps, last_err, result, received, yielded,
                   simVars, clusterVars, dateVars, citVars, feedVars>>

\* One turn of "while True" with a line: lines 149-173.  return ends the
\* generator with None.
SseReadLine ==
    /\ pc = "reading" /\ Len(received) < MaxLines
    /\ UNCHANGED <<max_retries, responses, last_err,
                   simVars, clusterVars, dateVars, citVars, feedVars>>
    /\ \E line \in SseLine :
        /\ received' = Append(received, line)
        /\ IF line.kind = "blank" /\ data_lines # <<>>
           THEN /\ data_lines' = <<>>
                /\ IF IsDone(data_lines)
                   THEN Return(NoError) /\ UNCHANGED yielded
                   ELSE IF ~sse_loads(data_lines).ok
                   THEN UNCHANGED <<pc, result, attempt, sleeps, yielded>>
                   ELSE LET obj == sse_loads(data_lines).val IN
                        IF HasError(obj)
                        THEN Raise(OpenRouterError(200, obj)) /\ UNCHANGED yielded
                        ELSE /\ yielded' = Append(yielded, obj)
                             /\ UNCHANGED <<pc, result, attempt, sleeps>>
           ELSE /\ data_lines' = IF line.kind = "data"
                                 THEN Append(data_lines, line.data)
                                 ELSE data_lines
                /\ UNCHANGED <<pc, result, attempt, sleeps, yielded>>

\* "if not bline: break" and the return after the loop: the connection closed.
SseEof ==
    /\ pc = "reading"
    /\ Return(NoError)
    /\ UNCHANGED <<max_retries, responses, last_err, sseVars,
                   simVars, clusterVars, dateVars, citVars, feedVars>>

\* urlopen raised HTTPError: lines 174-182.
SseHttpError ==
    /\ pc = "loop" /\ attempt <= max_retries
    /\ UNCHANGED <<sseVars, simVars, clusterVars, dateVars, citVars, feedVars>>
    /\ \E r \in SseHttpErrors :
        /\ responses' = Append(responses, r)
        /\ last_err' = OpenRouterError(r.status, try_read_json(r.body))
        /\ UNCHANGED max_retries
        /\ IF RetryHttp(attempt, r.status)
           THEN SleepAndContinue
           ELSE Raise(last_err')

\* urlopen raised URLError: lines 183-188.
SseUrlError ==
    /\ pc = "loop" /\ attempt <= max_retries
    /\ UNCHANGED <<sseVars, simVars, clusterVars, dateVars, citVars, feedVars>>
    /\ \E r \in UrlError :
        /\ responses' = Append(responses, r)
        /\ last_err' = OpenRouterError(NoStatus, EmptyDict)
        /\ UNCHANGED max_retries
        /\ IF RetryUrl(attempt)
           THEN SleepAndContinue
           ELSE Raise(last_err')

SseNext == SseOpen \/ SseReadLine \/ SseEof \/ SseHttpError \/ SseUrlError

SpecSse == SseInit /\ [][SseNext]_vars

\* The frames of the lines read: the payloads of the "data:" lines between
\* blank lines, a blank line ending a frame that has a payload.
RECURSIVE FramesOf(_, _)
FramesOf(lines, open) ==
    IF lines = <<>> THEN <<>>
    ELSE IF Head(lines).kind = "blank"
    THEN (IF open # <<>> THEN <<open>> ELSE <<>>) \o FramesOf(Tail(lines), <<>>)
    ELSE IF Head(lines).kind = "data"
    THEN FramesOf(Tail(lines), Append(open, Head(lines).data))
    ELSE FramesOf(Tail(lines), open)

Frames == FramesOf(received, <<>>)

IsDoneFrame(frame) == frame = <<"done">>

IsWellFormed(frame) == ~IsDoneFrame(frame) /\ sse_loads(frame).ok

IsErrorFrame(frame) == IsWellFormed(frame) /\ HasError(sse_loads(frame).val)

\* The frames before the first one that f holds of.
Before(frames, f(_)) ==
    LET stops == {i \in DOMAIN frames : f(frames[i])}
    IN  IF stops = {} THEN frames
        ELSE SubSeq(frames, 1, (CHOOSE i \in stops : \A j \in stops : i <= j) - 1)

Parsed(frames) ==
    LET wf == SelectSeq(frames, IsWellFormed)
    IN  [i \in DOMAIN wf |-> sse_loads(wf[i]).val]

C22_WitnessDone ==
    /\ pc = "returned"
    /\ Len(Frames) = 2
    /\ IsDoneFrame(Frames[2])
    /\ Len(yielded) = 1

====
